---------------------------- MODULE Spec2Model ----------------------------
(***************************************************************************)
(* TFT-Moonraker bridge (src/tft_moonraker_bridge.py).                     *)
(*                                                                         *)
(* asyncio runs one task at a time; a task runs from one await that really *)
(* suspends to the next.  Each action below is one such run of one task    *)
(* (its name is the method whose code it executes), and every host call,   *)
(* serial read and serial write draws its outcome from the outcomes the    *)
(* code distinguishes.                                                     *)
(*                                                                         *)
(* Specifications:                                                         *)
(*   Spec          TFTMoonrakerBridge.run with its three background tasks  *)
(*   LiveSpec      the same program steps under fair scheduling            *)
(*   ReadSpec      TFTSerial.read_line over every chunking of a stream     *)
(*   MacroSpec     concurrent callers of check_available_macros            *)
(*   RateSpec      concurrent callers of RateLimiter.acquire over a clock  *)
(*   RequestSpec   one MoonrakerClient._make_request with its retries      *)
(*   BackoffSpec   the reconnect delay of tft_connection_monitor           *)
(*   TranslateSpec GCodeTranslator.translate_gcode over a set of commands  *)
(*   TempSpec      handle_m105 over every shape of the status response     *)
(*   SecSpec       SecurityValidator over short and limit-length texts     *)
(*   SendSpec      MoonrakerClient.send_gcode, in test mode and out of it  *)
(*   ConnSpec      ConnectionManager: supervisor task, host and stop()     *)
(*   ConnLiveSpec  the same under fair scheduling of the started tasks     *)
(*   LinkSpec      TFTSerial: connect, read, write, close and its handles  *)
(*   AdmitSpec     _make_request behind its RateLimiter, over the clock    *)
(*   PushSpec      send_periodic_updates over the clock and the link state *)
(*   LockSpec      the macro lock and the limiter lock under three tasks   *)
(*   LockLiveSpec  the same when sleeps and host calls return              *)
(***************************************************************************)
EXTENDS Integers, Sequences, FiniteSets, TLC

\* ------------------------------------------------------------------ bounds
\* Lines the device sends in one run of the bridge.
MaxLines == 2
\* Characters of the byte stream fed to read_line.
MaxStream == 4
\* Tasks that call check_available_macros concurrently.
NumCallers == 3
\* Calls of check_available_macros in one run.
MaxCalls == 4
\* Tasks that call RateLimiter.acquire concurrently.
NumAcquirers == 2
\* Characters of a text given to the SecurityValidator.
MaxText == 3
\* Half seconds the status-push loop is followed for.
MaxPushTime == 13
\* Serial handles TFTSerial.connect opens in one run.
MaxHandles == 4
\* Calls of send_gcode in one run.
MaxSends == 2
\* Calls of acquire in one run.
MaxAcquires == 3
\* Largest max_requests and time_window of a limiter, and the last clock tick.
MaxCapacity == 2
MaxWindow == 2
MaxTime == 4
\* Largest max_retries and retry_delay of a configuration, and calls of
\* _make_request in one run.
MaxRetries == 3
MaxDelay == 2
MaxRequests == 2
\* Calls of tft.connect by the connection monitor in one run.
MaxAttempts == 8

VARIABLES
    \* TFTMoonrakerBridge
    mainPc,          \* where the task running run() is
    running,         \* self.running
    shutdown_event,  \* self.shutdown_event.is_set()
    exitCause,       \* how the read-dispatch loop was left
    cleanupCount,    \* calls of TFTMoonrakerBridge.cleanup
    apiStopCalled,   \* MoonrakerClient.stop has been called
    \* the dispatch in progress (process_gcode)
    dPc,             \* await at which process_gcode is suspended
    curLine,         \* kind of the line being dispatched
    replies,         \* lines written to the device by this dispatch
    passed,          \* lines this dispatch has passed to write_line
    sendResult,      \* what send_gcode gave this dispatch ("none": not called)
    linkUp,          \* tft.connected has been True throughout this dispatch
    lastDone,        \* process_gcode has returned for curLine
    caught,          \* its outer `except Exception` handled an exception
    nRead,           \* lines returned by read_line so far
    nReturned,       \* dispatches that returned or were aborted
    \* environment
    signalAt,        \* where run() was when SIGTERM/SIGINT was delivered
    cancelled,       \* the task running run() was cancelled
    \* TFTSerial, GCodeTranslator
    tft_connected,   \* TFTSerial.connected
    macros_checked,  \* GCodeTranslator.macros_checked
    \* background tasks
    perPc, perCancel,   \* send_periodic_updates
    monPc, monCancel,   \* tft_connection_monitor
    supPc, supCancel,   \* ConnectionManager._reconnect_loop
    \* ConnectionManager
    sessionOpen,     \* session is not None and not session.closed
    ws_connected,    \* ConnectionManager.connected
    probe,           \* how the connectivity probe of MoonrakerClient.start ended
    \* TFTSerial.read_line (ReadSpec)
    stream,          \* everything the device sends, as characters
    pos,             \* characters of it that serial.read has delivered
    read_buffer,     \* TFTSerial._read_buffer
    returned,        \* the lines read_line has returned, in order
    \* GCodeTranslator.check_available_macros (MacroSpec)
    mcPc,            \* per caller: where its call is
    macroLock,       \* holder of _macro_check_lock (0: free)
    macroWaiters,    \* callers waiting for the lock, first come first
    available_macros,\* GCodeTranslator.available_macros
    queries,         \* macro-configuration queries issued to the host
    queryFailed,     \* a query ended without a result
    callsStarted,    \* calls of check_available_macros so far
    callsReturned,   \* calls that are over
    \* RateLimiter (RateSpec)
    max_requests,    \* RateLimiter.max_requests
    time_window,     \* RateLimiter.time_window
    requests,        \* RateLimiter.requests, the deque of timestamps
    rlLock,          \* holder of RateLimiter._lock (0: free)
    rlWaiters,       \* callers waiting for the lock, first come first
    rlPc,            \* per caller: where its acquire is
    rlNow,           \* per caller: the local `now` of its acquire
    rlWake,          \* per caller: when its sleep is due
    clock,           \* time.time()
    completions,     \* the times at which acquire calls returned, in order
    acquiresStarted, \* calls of acquire so far
    \* MoonrakerClient._make_request (RequestSpec)
    max_retries,     \* BridgeConfig.max_retries
    retry_delay,     \* BridgeConfig.retry_delay
    rqPc,            \* where the call is
    rqAttempt,       \* the loop variable `attempt`
    rqSent,          \* attempts made by this call
    rqWaits,         \* the delays this call slept between attempts, in order
    rqResult,        \* how the call ended
    rqAllTransient,  \* every attempt of this call so far failed transiently
    rqCalls,         \* calls of _make_request so far
    \* tft_connection_monitor with its retry delay (BackoffSpec)
    mbPc,            \* the sleep at which the monitor is suspended
    mbConnected,     \* TFTSerial.connected
    tft_retry_delay, \* the local tft_retry_delay, in 1/DelayScale seconds
    mbSlept,         \* the delay slept before the last connect attempt
    mbLast,          \* how the last connect attempt ended
    mbAttempts,      \* connect attempts so far
    \* GCodeTranslator.translate_gcode (TranslateSpec)
    trCmd,           \* the argument gcode, as characters
    trMacros,        \* GCodeTranslator.available_macros, loaded
    trOut,           \* what translate_gcode returned (<<>>: None)
    trDone,          \* translate_gcode has returned
    \* TFTMoonrakerBridge.handle_m105 (TempSpec)
    status,          \* what get_printer_status gives
    m105Writes,      \* the lines handle_m105 passed to write_line
    m105Done,        \* handle_m105 has returned
    \* SecurityValidator (SecSpec)
    secIn,           \* the argument, as characters
    secOut,          \* sanitize_gcode(secIn)
    secOut2,         \* sanitize_gcode(secOut)
    secValid,        \* validate_filename(secIn)
    secDone,          \* the functions that have been applied to secIn
    \* MoonrakerClient.send_gcode (SendSpec)
    test_mode,       \* BridgeConfig.test_mode
    sgCmd,           \* the argument gcode of the current call, as characters
    sgPc,            \* where the call is
    sgLogged,        \* what TestModeHandler.log_command was given, in order
    sgPosted,        \* the scripts handed to _make_request, in order
    sgResult,        \* what the call returned
    sgCalls,          \* calls of send_gcode so far
    \* ConnectionManager with its supervisor task (ConnSpec)
    cmRetries,       \* BridgeConfig.max_retries, as connect_websocket reads it
    cmPc,            \* where the task running _reconnect_loop is
    cmAttempt,       \* the loop variable `attempt` of connect_websocket
    cmCancel,        \* reconnect_task.cancel() is pending
    cmConnected,     \* ConnectionManager.connected
    cmWs,            \* ConnectionManager.websocket: none, open or closed
    cmSession,       \* the session is open
    cmLast,          \* how the last connect_websocket ended
    cmStopPc,        \* where ConnectionManager.stop is
    hostUp,           \* the host accepts websocket connections
    lkConnected,    \* TFTSerial.connected
    lkSerial,       \* the handle self.serial is bound to (0: None)
    lkOpen,         \* the handles that are open
    lkOpened,       \* how many handles connect has opened
    lkPc,           \* where connect is, or "closed" after close
    lkLast,          \* the last call on the link and how it ended
    adPc,           \* where the _make_request behind the limiter is
    adAttempt,      \* `attempt` of its loop
    adTimes,        \* the times at which an attempt went to the host
    adWake,         \* when its backoff sleep ends
    adCalls,         \* calls of _make_request so far
    psClock,        \* time.time(), in half seconds
    psRunning,      \* self.running as send_periodic_updates sees it
    psConnected,    \* self.tft.connected as it sees it
    psPc,           \* where send_periodic_updates is
    psStarts,       \* the reports it started: when, and the link then
    psNow,          \* current_time of the report in progress
    psWake,         \* when its sleep ends
    last_temp_report, \* self.last_temp_report
    lsPc,           \* where each requesting task is
    lsMacroLock,    \* the holder of _macro_check_lock, or "free"
    lsRateLock,     \* the holder of the limiter's _lock, or "free"
    lsRateWaiters,  \* the tasks queued for the limiter's lock
    lsChecked       \* macros_checked as these tasks see it

bridgeVars == <<mainPc, running, shutdown_event, exitCause, cleanupCount, apiStopCalled>>
dispVars   == <<dPc, curLine, replies, passed, sendResult, linkUp, lastDone, caught, nRead, nReturned>>
envVars    == <<signalAt, cancelled>>
linkVars   == <<tft_connected, macros_checked>>
perVars    == <<perPc, perCancel>>
monVars    == <<monPc, monCancel>>
supVars    == <<supPc, supCancel>>
apiVars    == <<sessionOpen, ws_connected, probe>>
taskVars   == <<perVars, monVars, supVars>>

orchVars   == <<bridgeVars, dispVars, envVars, linkVars, taskVars, apiVars>>
orchRest   == <<bridgeVars, dispVars, envVars, tft_connected, taskVars, apiVars>>
readVars   == <<stream, pos, read_buffer, returned>>
macroVars  == <<mcPc, macroLock, macroWaiters, available_macros, queries, queryFailed,
                callsStarted, callsReturned>>

rateVars   == <<max_requests, time_window, requests, rlLock, rlWaiters, rlPc, rlNow, rlWake,
                clock, completions, acquiresStarted>>

reqVars    == <<max_retries, retry_delay, rqPc, rqAttempt, rqSent, rqWaits, rqResult,
                rqAllTransient, rqCalls>>

backoffVars == <<mbPc, mbConnected, tft_retry_delay, mbSlept, mbLast, mbAttempts>>

translateVars == <<trCmd, trMacros, trOut, trDone>>
tempVars    == <<status, m105Writes, m105Done>>

secVars     == <<secIn, secOut, secOut2, secValid, secDone>>

sendVars    == <<test_mode, sgCmd, sgPc, sgLogged, sgPosted, sgResult, sgCalls>>

connVars    == <<cmRetries, cmPc, cmAttempt, cmCancel, cmConnected, cmWs, cmSession, cmLast,
                cmStopPc, hostUp>>

linkHandleVars == <<lkConnected, lkSerial, lkOpen, lkOpened, lkPc, lkLast>>

admitVars == <<adPc, adAttempt, adTimes, adWake, adCalls>>

pushVars == <<psClock, psRunning, psConnected, psPc, psStarts, psNow, psWake, last_temp_report>>

lockVars == <<lsPc, lsMacroLock, lsRateLock, lsRateWaiters, lsChecked>>

vars == <<orchVars, readVars, macroVars, rateVars, reqVars, backoffVars, translateVars, tempVars, secVars, sendVars, connVars, linkHandleVars, admitVars, pushVars, lockVars>>

\* What a step of one specification leaves alone.
notOrch    == <<readVars, macroVars, rateVars, reqVars, backoffVars, translateVars, tempVars, secVars, sendVars, connVars, linkHandleVars, admitVars, pushVars, lockVars>>
notRead    == <<orchVars, macroVars, rateVars, reqVars, backoffVars, translateVars, tempVars, secVars, sendVars, connVars, linkHandleVars, admitVars, pushVars, lockVars>>
notMacro   == <<orchRest, readVars, rateVars, reqVars, backoffVars, translateVars, tempVars, secVars, sendVars, connVars, linkHandleVars, admitVars, pushVars, lockVars>>
notRate    == <<orchVars, readVars, macroVars, reqVars, backoffVars, translateVars, tempVars, secVars, sendVars, connVars, linkHandleVars, admitVars, pushVars, lockVars>>
notReq     == <<orchVars, readVars, macroVars, rateVars, backoffVars, translateVars, tempVars, secVars, sendVars, connVars, linkHandleVars, admitVars, pushVars, lockVars>>
notBackoff == <<orchVars, readVars, macroVars, rateVars, reqVars, translateVars, tempVars, secVars, sendVars, connVars, linkHandleVars, admitVars, pushVars, lockVars>>
notTranslate == <<orchVars, readVars, macroVars, rateVars, reqVars, backoffVars, tempVars, secVars, sendVars, connVars, linkHandleVars, admitVars, pushVars, lockVars>>
notTemp    == <<orchVars, readVars, macroVars, rateVars, reqVars, backoffVars, translateVars, secVars, sendVars, connVars, linkHandleVars, admitVars, pushVars, lockVars>>
notSec     == <<orchVars, readVars, macroVars, rateVars, reqVars, backoffVars, translateVars, tempVars, sendVars, connVars, linkHandleVars, admitVars, pushVars, lockVars>>
notSend == <<orchVars, readVars, macroVars, rateVars, reqVars, backoffVars, translateVars, tempVars, secVars, connVars, linkHandleVars, admitVars, pushVars, lockVars>>
notConn == <<orchVars, readVars, macroVars, rateVars, reqVars, backoffVars, translateVars, tempVars, secVars, sendVars, linkHandleVars, admitVars, pushVars, lockVars>>
notLink == <<orchVars, readVars, macroVars, rateVars, reqVars, backoffVars, translateVars, tempVars, secVars, sendVars, connVars, admitVars, pushVars, lockVars>>
notAdmit == <<orchVars, readVars, macroVars, rateVars, reqVars, backoffVars, translateVars, tempVars, secVars, sendVars, connVars, linkHandleVars, pushVars, lockVars>>
notRateReq == <<orchVars, readVars, macroVars, backoffVars, translateVars, tempVars, secVars, sendVars, connVars, linkHandleVars, pushVars, lockVars>>
notPush == <<orchVars, readVars, macroVars, rateVars, reqVars, backoffVars, translateVars, tempVars, secVars, sendVars, connVars, linkHandleVars, admitVars, lockVars>>
notLock == <<orchVars, readVars, macroVars, rateVars, reqVars, backoffVars, translateVars, tempVars, secVars, sendVars, connVars, linkHandleVars, admitVars, pushVars>>

RECURSIVE Pow2(_)
Pow2(k) == IF k = 0 THEN 1 ELSE 2 * Pow2(k - 1)

\* ---------------------------------------------------------------- TFTSerial
\* What one serial.write/flush can do inside write_line.
WriteOutcomes == {"ok", "serial_error", "other_error"}

\* write_line wrote the line: the link is connected and nothing was raised.
WriteLineOk(conn, o) == conn /\ o = "ok"

\* tft.connected after write_line: only SerialException degrades it.
WriteLineConn(conn, o) == conn /\ o # "serial_error"

\* The lines a dispatch has written, after one more write_line(text).
AfterWrite(rep, conn, o, text) == IF WriteLineOk(conn, o) THEN Append(rep, text) ELSE rep

\* What read_line can return to the loop: nothing, a line of some kind, or a
\* failure it swallows.
LineKinds == {"M115", "M105", "rule", "unknown"}
ReadOutcomes == {"none", "serial_error", "other_error"} \cup LineKinds

\* ----------------------------------- GCodeTranslator.check_available_macros
\* How the query of check_available_macros can end: a configuration, a
\* response without a configfile section, an exception, or the cancellation
\* of the caller.
QueryOutcomes == {"ok", "no_config", "fail", "cancelled"}

\* A check that takes the lock and queries without looking at the flag again.
NoDoubleCheck(checked) == FALSE

\* `if self.macros_checked: return` under the lock (the double check).
DoubleCheck(checked) == checked

\* macros_checked set only when the query gave a result.
CheckedOnlyOnSuccess(kind) == kind = "ok"

\* `finally: self.macros_checked = True`: set however the query ended.
CheckedAfterQuery(kind) == TRUE

\* -------------------------------------------------- process_gcode (dispatch)
\* process_gcode runs inside the task of run().  A step of it is described by
\* a record: pc is the await it stops at ("returned" when it returned,
\* "raised" when an exception left it), rep the lines it has written, att
\* the lines this step passed to write_line, conn the value of tft.connected
\* it leaves.
DispatchAwaits == {"macro_query", "send", "m105_status"}

\* A write_line(text) that ends process_gcode.
FinishWrite(rep, conn, o, text) ==
    [pc |-> "returned", rep |-> AfterWrite(rep, conn, o, text), att |-> <<text>>,
     conn |-> WriteLineConn(conn, o), caught |-> FALSE, sent |-> "none"]

\* handle_m115: the identification line, then "ok"; write_line never raises,
\* so both writes are attempted.
handle_m115(conn, o1, o2) ==
    LET c1 == WriteLineConn(conn, o1)
        r1 == AfterWrite(<<>>, conn, o1, "id")
    IN  [pc |-> "returned", rep |-> AfterWrite(r1, c1, o2, "ok"), att |-> <<"id", "ok">>,
         conn |-> WriteLineConn(c1, o2), caught |-> FALSE, sent |-> "none"]

\* process_gcode without its outer handler: the exception leaves it.
ProcessGcodeReraises(rep, conn, o) ==
    [pc |-> "raised", rep |-> rep, att |-> <<>>, conn |-> conn, caught |-> FALSE, sent |-> "none"]

\* The `except Exception` at the top of process_gcode: an exception raised in
\* the body is caught and "ok" is written in a try whose failure is swallowed.
ProcessGcodeRaised(rep, conn, o) ==
    [FinishWrite(rep, conn, o, "ok") EXCEPT !.caught = TRUE]

\* What translate_gcode gives for a line of kind k: a text, None, or an
\* unexpected exception.
TranslateOutcomes(k) == IF k = "rule" THEN {"text", "raise"} ELSE {"none", "raise"}

\* A process_gcode that forwarded the line itself when it has no translation.
ForwardUntranslated(rep, conn, tr, o) ==
    IF tr \in {"text", "none"}
    THEN [pc |-> "send", rep |-> rep, att |-> <<>>, conn |-> conn, caught |-> FALSE, sent |-> "none"]
    ELSE ProcessGcodeRaised(rep, conn, o)

\* process_gcode from the return of translate_gcode on: send the translation,
\* or acknowledge a line that has none.
AfterTranslate(rep, conn, tr, o) ==
    IF tr = "text"
    THEN [pc |-> "send", rep |-> rep, att |-> <<>>, conn |-> conn, caught |-> FALSE, sent |-> "none"]
    ELSE IF tr = "none" THEN FinishWrite(rep, conn, o, "ok")
    ELSE ProcessGcodeRaised(rep, conn, o)

\* A process_gcode that handed the firmware-info query to the translator like
\* any other line.
DispatchThroughTranslator(k, checked, conn, o1, o2, tr) ==
    IF k = "M105"
    THEN [pc |-> "m105_status", rep |-> <<>>, att |-> <<>>, conn |-> conn, caught |-> FALSE, sent |-> "none"]
    ELSE IF ~checked
    THEN [pc |-> "macro_query", rep |-> <<>>, att |-> <<>>, conn |-> conn, caught |-> FALSE, sent |-> "none"]
    ELSE AfterTranslate(<<>>, conn, IF k = "M115" THEN "text" ELSE tr, o1)

\* process_gcode from its start to its first await (or to its return).
BeginDispatch(k, checked, conn, o1, o2, tr) ==
    IF k = "M115" THEN handle_m115(conn, o1, o2)
    ELSE IF k = "M105"
    THEN [pc |-> "m105_status", rep |-> <<>>, att |-> <<>>, conn |-> conn, caught |-> FALSE, sent |-> "none"]
    ELSE IF ~checked
    THEN [pc |-> "macro_query", rep |-> <<>>, att |-> <<>>, conn |-> conn, caught |-> FALSE, sent |-> "none"]
    ELSE AfterTranslate(<<>>, conn, tr, o1)

\* What send_gcode can give back: a result, a result with "error" (a failed
\* request is turned into one), or an unexpected exception.
SendOutcomes == {"ok", "error", "raise"}

\* A process_gcode that acknowledged a failed send like a successful one.
AlwaysOk(rep, conn, r, o) ==
    [FinishWrite(rep, conn, o, "ok") EXCEPT !.sent = r]

\* process_gcode after send_gcode: "!! <error>" for an error result, "ok"
\* otherwise, also when send_gcode raised.
AfterSend(rep, conn, r, o) ==
    [FinishWrite(rep, conn, o, IF r = "error" THEN "!!" ELSE "ok") EXCEPT !.sent = r]

\* What get_printer_status gives handle_m105: both heaters, no status section,
\* an error result, or values that cannot be formatted.
StatusOutcomes == {"temps", "no_status", "error", "bad_values"}

\* handle_m105 after get_printer_status: one line, the temperatures or the
\* zero-valued fallback; both start with "ok".
handle_m105_reply(s) == IF s = "temps" THEN "ok T" ELSE "ok T0"

\* ------------------------------------------------------ TFTMoonrakerBridge.run
\* A loop that started process_gcode as a task of its own and went on.
DetachProcessGcode(pc) == "sleep"

\* `await self.process_gcode(line)`: while a dispatch is suspended the loop is
\* too; after it the loop sleeps.
AwaitProcessGcode(pc) == IF pc \in DispatchAwaits THEN "dispatch" ELSE "sleep"

\* A finally that cancelled the tasks and went on to cleanup at once.
SkipGather == "cleanup"

\* The finally of the loop: cancel both tasks, then await them (gather).
AfterCancelTasks == "gather"

\* Leaving the loop: the cause is recorded, the tasks are cancelled.
ExitLoop(cause) ==
    /\ exitCause' = cause
    /\ perCancel' = (perPc # "ended")
    /\ monCancel' = (monPc # "ended")
    /\ mainPc' = AfterCancelTasks

\* The state a step of process_gcode leaves (res is its record, before the
\* lines the dispatch had passed to write_line).
ApplyDispatch(res, up, before) ==
    /\ replies' = res.rep
    /\ passed' = before \o res.att
    /\ sendResult' = res.sent
    /\ tft_connected' = res.conn
    /\ linkUp' = (up /\ res.conn)
    /\ lastDone' = (res.pc = "returned")
    /\ caught' = res.caught
    /\ dPc' = IF res.pc \in DispatchAwaits THEN res.pc ELSE "idle"
    /\ nReturned' = IF res.pc \in DispatchAwaits THEN nReturned ELSE nReturned + 1
    /\ IF res.pc = "raised"
       THEN ExitLoop("error")
       ELSE /\ mainPc' = AwaitProcessGcode(res.pc)
            /\ UNCHANGED <<exitCause, perCancel, monCancel>>


\* Some other task may run only while the task of run() is suspended at an
\* await; "loop", "cleanup", "close" and "stop" are places inside one run of it.
MainSuspended == mainPc \in {"init", "probe", "sleep", "dispatch", "gather", "stop_wait", "done"}

\* What ConnectionManager.start can do: create the session, or raise.
StartOutcomes == {"ok", "raise"}

\* run(), up to the connectivity probe of MoonrakerClient.start:
\* ConnectionManager.start creates the session and the supervisor task, then
\* get_printer_info suspends on the host.  An exception leaves run() through
\* its outer `except Exception` (return False), which calls no cleanup.
Run_Start ==
    /\ UNCHANGED notOrch
    /\ mainPc = "init"
    /\ \E o \in StartOutcomes :
         IF o = "ok"
         THEN /\ mainPc' = "probe"
              /\ sessionOpen' = TRUE
              /\ supPc' = "new"
         ELSE /\ mainPc' = "done"
              /\ UNCHANGED <<sessionOpen, supPc>>
    /\ UNCHANGED <<running, shutdown_event, exitCause, cleanupCount, apiStopCalled,
                   dispVars, envVars, linkVars, perVars, monVars, supCancel, ws_connected,
                   probe>>

\* How get_printer_info ends in MoonrakerClient.start: a response, or an
\* exception (the host is unreachable, times out, answers with an error).
ProbeOutcomes == {"ok", "failed"}

\* A start() that let the exception of the probe reach run().
ProbeFatal(o) == IF o = "ok" THEN "loop" ELSE "done"

\* start() catches every Exception of the probe and logs it: run() goes on.
AfterProbe(o) == "loop"

\* The probe returned (its failure is only logged): self.running = True and
\* both background tasks are created.
Run_ProbeReturn ==
    /\ UNCHANGED notOrch
    /\ mainPc = "probe"
    /\ \E o \in ProbeOutcomes :
         /\ probe' = o
         /\ mainPc' = AfterProbe(o)
         /\ running' = (AfterProbe(o) = "loop")
         /\ perPc' = IF AfterProbe(o) = "loop" THEN "new" ELSE perPc
         /\ monPc' = IF AfterProbe(o) = "loop" THEN "new" ELSE monPc
    /\ UNCHANGED <<shutdown_event, exitCause, cleanupCount, apiStopCalled, dispVars,
                   envVars, linkVars, perCancel, monCancel, supVars, sessionOpen, ws_connected>>

\* One iteration of the read-dispatch loop, from its `while self.running` to
\* its next await: the flag checks, read_line, and process_gcode up to its
\* first await.
Run_Loop ==
    /\ UNCHANGED notOrch
    /\ mainPc \in {"loop", "sleep"}
    /\ IF ~running
       THEN /\ ExitLoop("flag")
            /\ UNCHANGED <<dispVars, linkVars>>
       ELSE IF shutdown_event
       THEN /\ ExitLoop("event")
            /\ UNCHANGED <<dispVars, linkVars>>
       ELSE IF ~tft_connected
       THEN /\ mainPc' = "sleep"
            /\ UNCHANGED <<exitCause, perCancel, monCancel, dispVars, linkVars>>
       ELSE \E rd \in ReadOutcomes :
              IF rd \in LineKinds
              THEN /\ nRead < MaxLines
                   /\ nRead' = nRead + 1
                   /\ curLine' = rd
                   /\ \E o1 \in WriteOutcomes, o2 \in WriteOutcomes, tr \in TranslateOutcomes(rd) :
                        ApplyDispatch(BeginDispatch(rd, macros_checked, tft_connected, o1, o2, tr), TRUE, <<>>)
                   /\ UNCHANGED macros_checked
              ELSE /\ mainPc' = "sleep"
                   /\ tft_connected' = (rd # "serial_error")
                   /\ UNCHANGED <<exitCause, perCancel, monCancel, dispVars, macros_checked>>
    /\ UNCHANGED <<running, shutdown_event, cleanupCount, apiStopCalled, envVars,
                   perPc, monPc, supVars, apiVars>>

\* check_available_macros returns: macros_checked is set in its finally,
\* whatever the query did; translate_gcode and process_gcode go on.
ProcessGcode_MacroReturn ==
    /\ UNCHANGED notOrch
    /\ dPc = "macro_query"
    /\ \E q \in QueryOutcomes \ {"cancelled"}, o \in WriteOutcomes,
          tr \in TranslateOutcomes(curLine) :
         /\ ApplyDispatch(AfterTranslate(replies, tft_connected, tr, o), linkUp, passed)
         /\ macros_checked' = (macros_checked \/ CheckedAfterQuery(q))
    /\ UNCHANGED <<running, shutdown_event, cleanupCount, apiStopCalled, curLine, nRead,
                   envVars, perPc, monPc, supVars, apiVars>>

\* send_gcode returns: the reply is written and process_gcode returns.
ProcessGcode_SendReturn ==
    /\ UNCHANGED notOrch
    /\ dPc = "send"
    /\ \E r \in SendOutcomes, o \in WriteOutcomes :
         ApplyDispatch(AfterSend(replies, tft_connected, r, o), linkUp, passed)
    /\ UNCHANGED <<running, shutdown_event, cleanupCount, apiStopCalled, curLine, nRead,
                   envVars, macros_checked, perPc, monPc, supVars, apiVars>>

\* get_printer_status returns to the handle_m105 of a dispatch.
ProcessGcode_StatusReturn ==
    /\ UNCHANGED notOrch
    /\ dPc = "m105_status"
    /\ \E s \in StatusOutcomes, o \in WriteOutcomes :
         ApplyDispatch(FinishWrite(replies, tft_connected, o, handle_m105_reply(s)), linkUp, passed)
    /\ UNCHANGED <<running, shutdown_event, cleanupCount, apiStopCalled, curLine, nRead,
                   envVars, macros_checked, perPc, monPc, supVars, apiVars>>


\* gather returned: both background tasks have ended; cleanup() is entered
\* (self.running = False is its first statement).
Run_GatherDone ==
    /\ UNCHANGED notOrch
    /\ mainPc = "gather"
    /\ perPc = "ended"
    /\ monPc = "ended"
    /\ mainPc' = "cleanup"
    /\ UNCHANGED <<running, shutdown_event, exitCause, cleanupCount, apiStopCalled,
                   dispVars, envVars, linkVars, taskVars, apiVars>>

\* The order of the releases in TFTMoonrakerBridge.cleanup: tft.close(), then
\* moonraker.stop(), which is awaited.
CleanupOrder == <<"close", "stop", "stop_wait">>

\* The step of cleanup() that follows step s.
CleanupNext(s) ==
    IF s = CleanupOrder[1] THEN CleanupOrder[2] ELSE CleanupOrder[3]

\* cleanup(): entered once more; self.running = False.
Cleanup_Enter ==
    /\ UNCHANGED notOrch
    /\ mainPc = "cleanup"
    /\ cleanupCount' = cleanupCount + 1
    /\ running' = FALSE
    /\ mainPc' = CleanupOrder[1]
    /\ UNCHANGED <<shutdown_event, exitCause, apiStopCalled, dispVars, envVars, linkVars,
                   taskVars, apiVars>>

\* cleanup(): self.tft.close().
Cleanup_Close ==
    /\ UNCHANGED notOrch
    /\ mainPc = "close"
    /\ tft_connected' = FALSE
    /\ mainPc' = CleanupNext("close")
    /\ UNCHANGED <<running, shutdown_event, exitCause, cleanupCount, apiStopCalled,
                   dispVars, envVars, macros_checked, taskVars, apiVars>>

\* cleanup(): await self.moonraker.stop(); ConnectionManager.stop cancels the
\* supervisor task and awaits it.
Cleanup_Stop ==
    /\ UNCHANGED notOrch
    /\ mainPc = "stop"
    /\ apiStopCalled' = TRUE
    /\ supCancel' = (supPc # "ended")
    /\ mainPc' = CleanupNext("stop")
    /\ UNCHANGED <<running, shutdown_event, exitCause, cleanupCount, dispVars, envVars,
                   linkVars, perVars, monVars, supPc, apiVars>>

\* The supervisor has ended: ConnectionManager.cleanup closes the websocket
\* and the session; cleanup() and run() return.
Cleanup_StopDone ==
    /\ UNCHANGED notOrch
    /\ mainPc = "stop_wait"
    /\ supPc = "ended"
    /\ sessionOpen' = FALSE
    /\ ws_connected' = FALSE
    /\ UNCHANGED probe
    /\ mainPc' = "done"
    /\ UNCHANGED <<running, shutdown_event, exitCause, cleanupCount, apiStopCalled,
                   dispVars, envVars, linkVars, taskVars>>

\* ------------------------------------------------------------- environment
\* The part of run() a place belongs to.
Phase(pc) ==
    IF pc \in {"init", "probe"} THEN "start"
    ELSE IF pc \in {"loop", "sleep"} THEN "idle"
    ELSE IF pc = "dispatch" THEN "dispatch"
    ELSE "exit"

signalled == signalAt # "none"

\* _signal_handler: SIGTERM or SIGINT, at any point of the run.
signal_handler ==
    /\ UNCHANGED notOrch
    /\ ~signalled
    /\ mainPc # "done"
    /\ signalAt' = Phase(mainPc)
    /\ running' = FALSE
    /\ shutdown_event' = TRUE
    /\ UNCHANGED <<mainPc, exitCause, cleanupCount, apiStopCalled, dispVars, cancelled,
                   linkVars, taskVars, apiVars>>

\* The task running run() is cancelled while it is suspended at an await.
\* In the loop, CancelledError reaches the loop's `except asyncio.CancelledError`
\* and its finally; anywhere else it leaves run() (it is no Exception).  A
\* dispatch in progress is abandoned; the finally of check_available_macros
\* still sets macros_checked.
Run_Cancelled ==
    /\ UNCHANGED notOrch
    /\ ~cancelled
    /\ mainPc \in {"probe", "sleep", "dispatch", "gather", "stop_wait"}
    /\ cancelled' = TRUE
    /\ IF mainPc \in {"sleep", "dispatch"}
       THEN ExitLoop("cancelled")
       ELSE /\ mainPc' = "done"
            /\ UNCHANGED <<exitCause, perCancel, monCancel>>
    /\ dPc' = "idle"
    /\ nReturned' = IF dPc = "idle" THEN nReturned ELSE nReturned + 1
    /\ macros_checked' = (macros_checked \/ (dPc = "macro_query" /\ CheckedAfterQuery("cancelled")))
    /\ UNCHANGED <<running, shutdown_event, cleanupCount, apiStopCalled, curLine, replies,
                   passed, sendResult, linkUp, lastDone, caught, nRead, signalAt, tft_connected, perPc, monPc,
                   supVars, apiVars>>


\* -------------------------------------------------- send_periodic_updates
\* A status-push loop that swallowed its cancellation and slept again.
PeriodicIgnoresCancel == "sleep"

\* `except asyncio.CancelledError: break`: the task ends when cancelled.
PeriodicOnCancelled == "ended"

\* One pass of the status-push loop, from `while self.running` to its await:
\* a report is started when the link is connected and one is due (the host
\* query suspends), else the loop sleeps.
Periodic_Iter ==
    /\ UNCHANGED notOrch
    /\ MainSuspended
    /\ perPc \in {"new", "sleep"}
    /\ ~perCancel
    /\ \E due \in BOOLEAN :
         perPc' = IF ~running THEN "ended"
                  ELSE IF tft_connected /\ due THEN "status"
                  ELSE "sleep"
    /\ UNCHANGED <<bridgeVars, dispVars, envVars, linkVars, perCancel, monVars, supVars, apiVars>>

\* get_printer_status returns to the handle_m105 of the status-push loop: one
\* line is written, then the loop sleeps.
Periodic_StatusReturn ==
    /\ UNCHANGED notOrch
    /\ MainSuspended
    /\ perPc = "status"
    /\ ~perCancel
    /\ \E s \in StatusOutcomes, o \in WriteOutcomes :
         /\ tft_connected' = WriteLineConn(tft_connected, o)
         /\ linkUp' = IF dPc = "idle" THEN linkUp ELSE linkUp /\ WriteLineConn(tft_connected, o)
    /\ perPc' = "sleep"
    /\ UNCHANGED <<bridgeVars, dPc, curLine, replies, passed, sendResult, lastDone, caught, nRead, nReturned, envVars,
                   macros_checked, perCancel, monVars, supVars, apiVars>>

\* The cancelled task is resumed with CancelledError at its await.
Periodic_Cancelled ==
    /\ UNCHANGED notOrch
    /\ MainSuspended
    /\ perCancel
    /\ perPc \in {"new", "sleep", "status"}
    /\ perPc' = PeriodicOnCancelled
    /\ perCancel' = FALSE
    /\ UNCHANGED <<bridgeVars, dispVars, envVars, linkVars, monVars, supVars, apiVars>>

\* ------------------------------------------------- tft_connection_monitor
\* `except asyncio.CancelledError: break`.
MonitorOnCancelled == "ended"

\* The loop head of the monitor: leave when not running, else sleep the retry
\* delay when the link is down and the poll interval when it is up.
MonitorTop(run, conn) ==
    IF ~run THEN "ended" ELSE IF ~conn THEN "retry" ELSE "sleep"

\* The task starts, or its 10 s poll sleep ends.
Monitor_Iter ==
    /\ UNCHANGED notOrch
    /\ MainSuspended
    /\ monPc \in {"new", "sleep"}
    /\ ~monCancel
    /\ monPc' = MonitorTop(running, tft_connected)
    /\ UNCHANGED <<bridgeVars, dispVars, envVars, linkVars, perVars, monCancel, supVars, apiVars>>

\* The retry sleep ends: tft.connect() opens the port or fails, and the loop
\* head follows in the same run of the task.
Monitor_Retry ==
    /\ UNCHANGED notOrch
    /\ MainSuspended
    /\ monPc = "retry"
    /\ ~monCancel
    /\ \E ok \in BOOLEAN :
         /\ tft_connected' = ok
         /\ monPc' = MonitorTop(running, ok)
    /\ UNCHANGED <<bridgeVars, dispVars, envVars, macros_checked, perVars, monCancel,
                   supVars, apiVars>>

Monitor_Cancelled ==
    /\ UNCHANGED notOrch
    /\ MainSuspended
    /\ monCancel
    /\ monPc \in {"new", "sleep", "retry"}
    /\ monPc' = MonitorOnCancelled
    /\ monCancel' = FALSE
    /\ UNCHANGED <<bridgeVars, dispVars, envVars, linkVars, perVars, supVars, apiVars>>

\* ------------------------------------------- ConnectionManager._reconnect_loop
\* `except asyncio.CancelledError: break`.
SupervisorOnCancelled == "ended"

\* The task starts, or its 30 s sleep ends: connect when not connected.
Supervisor_Iter ==
    /\ UNCHANGED notOrch
    /\ MainSuspended
    /\ supPc \in {"new", "sleep"}
    /\ ~supCancel
    /\ supPc' = IF ~ws_connected THEN "connecting" ELSE "sleep"
    /\ UNCHANGED <<bridgeVars, dispVars, envVars, linkVars, perVars, monVars, supCancel, apiVars>>

\* connect_websocket returns (after its retries): connected or not.
Supervisor_ConnectReturn ==
    /\ UNCHANGED notOrch
    /\ MainSuspended
    /\ supPc = "connecting"
    /\ ~supCancel
    /\ \E ok \in BOOLEAN : ws_connected' = ok
    /\ supPc' = "sleep"
    /\ UNCHANGED <<bridgeVars, dispVars, envVars, linkVars, perVars, monVars, supCancel,
                   sessionOpen, probe>>

Supervisor_Cancelled ==
    /\ UNCHANGED notOrch
    /\ MainSuspended
    /\ supCancel
    /\ supPc \in {"new", "sleep", "connecting"}
    /\ supPc' = SupervisorOnCancelled
    /\ supCancel' = FALSE
    /\ UNCHANGED <<bridgeVars, dispVars, envVars, linkVars, perVars, monVars, apiVars>>

\* ------------------------------------------------------------ specification
OrchInit ==
    /\ mainPc = "init"
    /\ running = FALSE
    /\ shutdown_event = FALSE
    /\ exitCause = "none"
    /\ cleanupCount = 0
    /\ apiStopCalled = FALSE
    /\ dPc = "idle"
    /\ curLine = "none"
    /\ replies = <<>>
    /\ passed = <<>>
    /\ sendResult = "none"
    /\ linkUp = TRUE
    /\ lastDone = FALSE
    /\ caught = FALSE
    /\ nRead = 0
    /\ nReturned = 0
    /\ signalAt = "none"
    /\ cancelled = FALSE
    /\ tft_connected = FALSE
    /\ macros_checked = FALSE
    /\ perPc = "none"
    /\ perCancel = FALSE
    /\ monPc = "none"
    /\ monCancel = FALSE
    /\ supPc = "none"
    /\ supCancel = FALSE
    /\ sessionOpen = FALSE
    /\ ws_connected = FALSE
    /\ probe = "pending"

\* Nothing has been fed to read_line.
ReadIdle ==
    /\ stream = <<>>
    /\ pos = 0
    /\ read_buffer = <<>>
    /\ returned = <<>>

\* Nobody has called check_available_macros.
MacroIdle ==
    /\ mcPc = [c \in 1..NumCallers |-> "idle"]
    /\ macroLock = 0
    /\ macroWaiters = <<>>
    /\ available_macros = {}
    /\ queries = 0
    /\ queryFailed = FALSE
    /\ callsStarted = 0
    /\ callsReturned = 0

\* RateLimiter.__init__: an empty deque and a free lock.
RateLimiter(n, w) ==
    /\ max_requests = n
    /\ time_window = w
    /\ requests = <<>>
    /\ rlLock = 0
    /\ rlWaiters = <<>>
    /\ rlPc = [c \in 1..NumAcquirers |-> "idle"]
    /\ rlNow = [c \in 1..NumAcquirers |-> 0]
    /\ rlWake = [c \in 1..NumAcquirers |-> 0]
    /\ clock = 0
    /\ completions = <<>>
    /\ acquiresStarted = 0

\* A limiter nobody uses.
RateIdle == RateLimiter(1, 1)

\* A client with the configuration (n retries, delay d) and no request made.
MoonrakerClient(n, d) ==
    /\ max_retries = n
    /\ retry_delay = d
    /\ rqPc = "idle"
    /\ rqAttempt = 0
    /\ rqSent = 0
    /\ rqWaits = <<>>
    /\ rqResult = "none"
    /\ rqAllTransient = TRUE
    /\ rqCalls = 0

\* A client nobody calls.
ReqIdle == MoonrakerClient(1, 1)

\* Delays are held in 1/DelayScale seconds, which keeps every product with
\* 1.5 the monitor can reach a whole number.
DelayScale == Pow2(7)

\* `tft_retry_delay = 5.0` and `max_retry_delay = 60.0`, in seconds.
base_retry_delay == 5
max_retry_delay == 60

\* tft_connection_monitor at its start: the link is down, the delay is the
\* base delay and the first retry sleep begins.
BackoffIdle ==
    /\ mbPc = "retry"
    /\ mbConnected = FALSE
    /\ tft_retry_delay = base_retry_delay * DelayScale
    /\ mbSlept = 0
    /\ mbLast = "none"
    /\ mbAttempts = 0

\* translate_gcode has not been called.
TranslateIdle ==
    /\ trCmd = <<>>
    /\ trMacros = {}
    /\ trOut = <<>>
    /\ trDone = FALSE

\* handle_m105 has not been called.
TempIdle ==
    /\ status = [kind |-> "error",
                 extruder |-> [present |-> FALSE, temperature |-> [k |-> "missing", v |-> 0],
                               target |-> [k |-> "missing", v |-> 0]],
                 heater_bed |-> [present |-> FALSE, temperature |-> [k |-> "missing", v |-> 0],
                                 target |-> [k |-> "missing", v |-> 0]]]
    /\ m105Writes = <<>>
    /\ m105Done = FALSE

\* Nothing has been given to the validator.
SecIdle ==
    /\ secIn = <<>>
    /\ secOut = <<>>
    /\ secOut2 = <<>>
    /\ secValid = FALSE
    /\ secDone = {}

\* Nobody has called send_gcode.
SendIdle ==
    /\ test_mode = FALSE
    /\ sgCmd = <<>>
    /\ sgPc = "idle"
    /\ sgLogged = <<>>
    /\ sgPosted = <<>>
    /\ sgResult = "none"
    /\ sgCalls = 0

\* A ConnectionManager after start(): the session is open, the supervisor
\* task is created, no websocket yet; n attempts per connect.
ConnectionManager(n, up) ==
    /\ cmRetries = n
    /\ cmPc = "new"
    /\ cmAttempt = 0
    /\ cmCancel = FALSE
    /\ cmConnected = FALSE
    /\ cmWs = "none"
    /\ cmSession = TRUE
    /\ cmLast = "none"
    /\ cmStopPc = "idle"
    /\ hostUp = up

ConnIdle == ConnectionManager(1, FALSE)

\* TFTSerial.__init__: not connected, no handle.
LinkIdle ==
    /\ lkConnected = FALSE
    /\ lkSerial = 0
    /\ lkOpen = {}
    /\ lkOpened = 0
    /\ lkPc = "idle"
    /\ lkLast = "none"

\* No request behind the limiter.
AdmitIdle ==
    /\ adPc = "idle"
    /\ adAttempt = 0
    /\ adTimes = <<>>
    /\ adWake = 0
    /\ adCalls = 0

\* The status-push loop not started.
PushIdle ==
    /\ psClock = 0
    /\ psRunning = FALSE
    /\ psConnected = FALSE
    /\ psPc = "new"
    /\ psStarts = <<>>
    /\ psNow = 0
    /\ psWake = 0
    /\ last_temp_report = 0

\* No task has asked for anything.
LockIdle ==
    /\ lsPc = [t \in {"dispatch", "push", "probe"} |-> "idle"]
    /\ lsMacroLock = "free"
    /\ lsRateLock = "free"
    /\ lsRateWaiters = <<>>
    /\ lsChecked = FALSE

Init == OrchInit /\ LockIdle /\ PushIdle /\ AdmitIdle /\ LinkIdle /\ ConnIdle /\ SendIdle /\ SecIdle /\ ReadIdle /\ MacroIdle /\ RateIdle /\ ReqIdle /\ BackoffIdle /\ TranslateIdle /\ TempIdle

\* The steps of the task of run().
MainStep ==
    \/ Run_Start
    \/ Run_ProbeReturn
    \/ Run_Loop
    \/ ProcessGcode_MacroReturn
    \/ ProcessGcode_SendReturn
    \/ ProcessGcode_StatusReturn
    \/ Run_GatherDone
    \/ Cleanup_Enter
    \/ Cleanup_Close
    \/ Cleanup_Stop
    \/ Cleanup_StopDone

PeriodicStep == Periodic_Iter \/ Periodic_StatusReturn \/ Periodic_Cancelled

MonitorStep == Monitor_Iter \/ Monitor_Retry \/ Monitor_Cancelled

SupervisorStep == Supervisor_Iter \/ Supervisor_ConnectReturn \/ Supervisor_Cancelled

Next ==
    \/ MainStep
    \/ PeriodicStep
    \/ MonitorStep
    \/ SupervisorStep
    \/ signal_handler
    \/ Run_Cancelled

Spec == Init /\ [][Next]_vars


\* The program under fair scheduling: the event loop runs every ready task,
\* and every pending sleep and host call returns.  The environment delivers
\* the shutdown signal when it likes and does not cancel the task of run().
LiveNext ==
    \/ MainStep
    \/ PeriodicStep
    \/ MonitorStep
    \/ SupervisorStep
    \/ signal_handler

LiveSpec ==
    /\ Init
    /\ [][LiveNext]_vars
    /\ WF_vars(MainStep)
    /\ WF_vars(PeriodicStep)
    /\ WF_vars(MonitorStep)
    /\ WF_vars(SupervisorStep)

\* ---------------------------------------------------- TFTSerial.read_line
\* Text is a sequence of characters; NL is the line terminator.
NL == "\n"

Chars == {"a", "b", " ", NL}

\* The characters str.strip() removes and \\s matches.
Whitespace == {" ", NL, "\t", "\r"}

\* str.strip(): leading and trailing whitespace removed.
RECURSIVE Strip(_)
Strip(t) ==
    IF t = <<>> THEN t
    ELSE IF Head(t) \in Whitespace THEN Strip(Tail(t))
    ELSE IF t[Len(t)] \in Whitespace THEN Strip(SubSeq(t, 1, Len(t) - 1))
    ELSE t

HasNL(t) == \E i \in 1..Len(t) : t[i] = NL

FirstNL(t) == CHOOSE i \in 1..Len(t) : t[i] = NL /\ \A j \in 1..(i - 1) : t[j] # NL

\* str.split('\n'): the pieces between the terminators, the last one being
\* what follows the last terminator.
RECURSIVE Split(_)
Split(t) ==
    IF ~HasNL(t) THEN <<t>>
    ELSE <<SubSeq(t, 1, FirstNL(t) - 1)>> \o Split(SubSeq(t, FirstNL(t) + 1, Len(t)))

\* `self._read_buffer = lines[-1]`: what read_line keeps of the buffer once it
\* holds a terminator.
KeptBuffer(lines, buf) ==
    lines[Len(lines)]

\* A read_line that handed out whatever the buffer holds.
AnyData(b) == TRUE

\* `if '\n' in self._read_buffer`
LineReady(b) == HasNL(b)

\* read_line with `data` pending on the port (in_waiting > 0): the buffer it
\* leaves and the line it returns (<<>> for None).
read_line(buf, data) ==
    LET b == buf \o data
        lines == Split(b)
    IN  IF LineReady(b)
        THEN [buf |-> KeptBuffer(lines, b), ret |-> Strip(lines[1])]
        ELSE [buf |-> b, ret |-> <<>>]

\* One call of read_line: serial.read delivers the next n pending characters
\* (none: in_waiting == 0, and read_line returns None at once).
ReadLine ==
    /\ \E n \in 0..(Len(stream) - pos) :
         LET r == read_line(read_buffer, SubSeq(stream, pos + 1, pos + n))
         IN  /\ pos' = pos + n
             /\ read_buffer' = IF n = 0 THEN read_buffer ELSE r.buf
             /\ returned' = IF n = 0 \/ r.ret = <<>> THEN returned ELSE Append(returned, r.ret)
    /\ UNCHANGED stream
    /\ UNCHANGED notRead

\* Every stream of at most MaxStream characters.
Streams == UNION {[1..n -> Chars] : n \in 0..MaxStream}

ReadInit ==
    /\ OrchInit /\ LockIdle /\ PushIdle /\ AdmitIdle /\ LinkIdle /\ ConnIdle /\ SendIdle /\ SecIdle
    /\ MacroIdle
    /\ RateIdle
    /\ ReqIdle
    /\ BackoffIdle /\ TranslateIdle /\ TempIdle
    /\ stream \in Streams
    /\ pos = 0
    /\ read_buffer = <<>>
    /\ returned = <<>>

ReadNext == ReadLine

ReadSpec == ReadInit /\ [][ReadNext]_vars

\* The stripped, non-empty lines of a text that end with a terminator.
RECURSIVE NonEmpty(_)
NonEmpty(ls) ==
    IF ls = <<>> THEN <<>>
    ELSE IF Strip(Head(ls)) = <<>> THEN NonEmpty(Tail(ls))
    ELSE <<Strip(Head(ls))>> \o NonEmpty(Tail(ls))

StreamLines(t) == NonEmpty(SubSeq(Split(t), 1, Len(Split(t)) - 1))

\* --------------------------------- GCodeTranslator.check_available_macros
Callers == 1..NumCallers

\* Macro names the host configuration may define.
MacroNames == {"LOAD_FILAMENT", "UNLOAD_FILAMENT"}

\* What the query gives the registry: the macros of a configuration, nothing
\* in every other case.
QueryResults ==
    [kind : {"ok"}, macros : SUBSET MacroNames]
        \cup [kind : QueryOutcomes \ {"ok"}, macros : {{}}]

\* asyncio.Lock.release: the first waiter, if any, gets the lock.
LockAfterRelease(waiters) == IF waiters = <<>> THEN 0 ELSE Head(waiters)

WaitersAfterRelease(waiters) == IF waiters = <<>> THEN <<>> ELSE Tail(waiters)

\* A task calls check_available_macros: it returns at once when the flag is
\* set; else it takes the lock when that is free, and then, the flag being
\* unset, issues the query; else it waits for the lock.
Macro_Call(c) ==
    /\ mcPc[c] = "idle"
    /\ callsStarted < MaxCalls
    /\ callsStarted' = callsStarted + 1
    /\ IF macros_checked
       THEN /\ callsReturned' = callsReturned + 1
            /\ UNCHANGED <<mcPc, macroLock, macroWaiters, queries>>
       ELSE IF macroLock = 0
       THEN /\ macroLock' = c
            /\ queries' = queries + 1
            /\ mcPc' = [mcPc EXCEPT ![c] = "query"]
            /\ UNCHANGED <<macroWaiters, callsReturned>>
       ELSE /\ macroWaiters' = Append(macroWaiters, c)
            /\ mcPc' = [mcPc EXCEPT ![c] = "wait_lock"]
            /\ UNCHANGED <<macroLock, queries, callsReturned>>
    /\ UNCHANGED <<macros_checked, available_macros, queryFailed>>
    /\ UNCHANGED notMacro

\* A waiter got the lock: the double check, then the query if still needed.
Macro_Granted(c) ==
    /\ mcPc[c] = "wait_lock"
    /\ macroLock = c
    /\ IF DoubleCheck(macros_checked)
       THEN /\ mcPc' = [mcPc EXCEPT ![c] = "idle"]
            /\ macroLock' = LockAfterRelease(macroWaiters)
            /\ macroWaiters' = WaitersAfterRelease(macroWaiters)
            /\ callsReturned' = callsReturned + 1
            /\ UNCHANGED queries
       ELSE /\ mcPc' = [mcPc EXCEPT ![c] = "query"]
            /\ queries' = queries + 1
            /\ UNCHANGED <<macroLock, macroWaiters, callsReturned>>
    /\ UNCHANGED <<macros_checked, available_macros, queryFailed, callsStarted>>
    /\ UNCHANGED notMacro

\* The query is over: the macros of a result are added, the flag is set in
\* the finally, the lock is released.
Macro_QueryReturn(c) ==
    /\ mcPc[c] = "query"
    /\ \E r \in QueryResults :
         /\ available_macros' = available_macros \cup r.macros
         /\ queryFailed' = (queryFailed \/ r.kind # "ok")
         /\ macros_checked' = (macros_checked \/ CheckedAfterQuery(r.kind))
    /\ mcPc' = [mcPc EXCEPT ![c] = "idle"]
    /\ macroLock' = LockAfterRelease(macroWaiters)
    /\ macroWaiters' = WaitersAfterRelease(macroWaiters)
    /\ callsReturned' = callsReturned + 1
    /\ UNCHANGED <<queries, callsStarted>>
    /\ UNCHANGED notMacro

MacroInit == OrchInit /\ LockIdle /\ PushIdle /\ AdmitIdle /\ LinkIdle /\ ConnIdle /\ SendIdle /\ SecIdle /\ ReadIdle /\ MacroIdle /\ RateIdle /\ ReqIdle /\ BackoffIdle /\ TranslateIdle /\ TempIdle

MacroNext ==
    \E c \in Callers :
        \/ Macro_Call(c)
        \/ Macro_Granted(c)
        \/ Macro_QueryReturn(c)

MacroSpec == MacroInit /\ [][MacroNext]_vars

\* ------------------------------------------------------ RateLimiter.acquire
Acquirers == 1..NumAcquirers

\* `while self.requests and self.requests[0] < bound: popleft()`: only the
\* front of the deque is looked at.
RECURSIVE Evict(_, _)
Evict(q, bound) ==
    IF q # <<>> /\ Head(q) < bound THEN Evict(Tail(q), bound) ELSE q

\* A wait for the time the oldest entry has already spent in the window.
SleepTimeElapsed(w, now, oldest) == now - oldest

\* `sleep_time = self.time_window - (now - self.requests[0])`
SleepTime(w, now, oldest) == w - (now - oldest)

\* `if self.requests: self.requests.popleft()` after the sleep.
PopLeft(q) == IF q # <<>> THEN Tail(q) ELSE q

\* An acquire that gave the lock up for the time of its sleep.
FreeWhileSleeping(c) == 0

\* `await asyncio.sleep(sleep_time)` is inside `async with self._lock`: the
\* sleeping caller stays the holder.
HeldWhileSleeping(c) == c

\* acquire from the point where it holds the lock to its sleep or its return:
\* read the clock, evict, and either sleep with the lock held or record `now`
\* and release the lock.
AcquireLocked(c) ==
    LET now  == clock
        kept == Evict(requests, now - time_window)
    IN  IF Len(kept) >= max_requests /\ SleepTime(time_window, now, kept[1]) > 0
        THEN /\ requests' = kept
             /\ rlPc' = [rlPc EXCEPT ![c] = "sleeping"]
             /\ rlNow' = [rlNow EXCEPT ![c] = now]
             /\ rlWake' = [rlWake EXCEPT ![c] = now + SleepTime(time_window, now, kept[1])]
             /\ rlLock' = HeldWhileSleeping(c)
             /\ UNCHANGED <<rlWaiters, completions>>
        ELSE /\ requests' = Append(kept, now)
             /\ rlPc' = [rlPc EXCEPT ![c] = "idle"]
             /\ completions' = Append(completions, clock)
             /\ rlLock' = LockAfterRelease(rlWaiters)
             /\ rlWaiters' = WaitersAfterRelease(rlWaiters)
             /\ UNCHANGED <<rlNow, rlWake>>

\* A task calls acquire: with the lock free it goes on without suspending,
\* else it waits for the lock.
Acquire_Call(c) ==
    /\ rlPc[c] = "idle"
    /\ acquiresStarted < MaxAcquires
    /\ acquiresStarted' = acquiresStarted + 1
    /\ IF rlLock = 0
       THEN AcquireLocked(c)
       ELSE /\ rlWaiters' = Append(rlWaiters, c)
            /\ rlPc' = [rlPc EXCEPT ![c] = "wait_lock"]
            /\ UNCHANGED <<requests, rlLock, rlNow, rlWake, completions>>
    /\ UNCHANGED <<max_requests, time_window, clock>>
    /\ UNCHANGED notRate

\* A waiter got the lock.
Acquire_Granted(c) ==
    /\ rlPc[c] = "wait_lock"
    /\ rlLock = c
    /\ AcquireLocked(c)
    /\ UNCHANGED <<max_requests, time_window, clock, acquiresStarted>>
    /\ UNCHANGED notRate

\* The sleep is over (never early, possibly late): drop the oldest entry,
\* record the `now` read before the sleep, release the lock.
AcquireWoken(c) ==
    /\ rlPc[c] = "sleeping"
    /\ clock >= rlWake[c]
    /\ requests' = Append(PopLeft(requests), rlNow[c])
    /\ completions' = Append(completions, clock)
    /\ rlPc' = [rlPc EXCEPT ![c] = "idle"]
    /\ rlNow' = [rlNow EXCEPT ![c] = 0]
    /\ rlWake' = [rlWake EXCEPT ![c] = 0]
    /\ rlLock' = LockAfterRelease(rlWaiters)
    /\ rlWaiters' = WaitersAfterRelease(rlWaiters)

Acquire_Wake(c) ==
    /\ AcquireWoken(c)
    /\ UNCHANGED <<max_requests, time_window, clock, acquiresStarted>>
    /\ UNCHANGED notRate

\* Time passes.
Tick ==
    /\ clock < MaxTime
    /\ clock' = clock + 1
    /\ UNCHANGED <<max_requests, time_window, requests, rlLock, rlWaiters, rlPc, rlNow, rlWake,
                   completions, acquiresStarted>>
    /\ UNCHANGED notRate

\* A fresh limiter of any capacity and window.
RateInit ==
    /\ OrchInit /\ LockIdle /\ PushIdle /\ AdmitIdle /\ LinkIdle /\ ConnIdle /\ SendIdle /\ SecIdle /\ ReadIdle /\ MacroIdle /\ ReqIdle /\ BackoffIdle /\ TranslateIdle /\ TempIdle
    /\ \E n \in 1..MaxCapacity, w \in 1..MaxWindow : RateLimiter(n, w)

RateNext ==
    \/ \E c \in Acquirers :
        \/ Acquire_Call(c)
        \/ Acquire_Granted(c)
        \/ Acquire_Wake(c)
    \/ Tick

RateSpec == RateInit /\ [][RateNext]_vars

\* ------------------------------------------- MoonrakerClient._make_request
\* What one attempt can do: return the response, fail with aiohttp.ClientError
\* or asyncio.TimeoutError, or fail with any other exception.
AttemptOutcomes == {"ok", "transient", "other"}

\* A retry that waited the same delay after every failed attempt.
ConstantDelay(d, attempt) == d

\* `delay = self.config.retry_delay * (2 ** attempt)`
BackoffDelay(d, attempt) == d * Pow2(attempt)

\* `if attempt < self.config.max_retries - 1`: sleep and try again, else raise.
RetryAgain(attempt, n) == attempt < n - 1

\* _make_request is called: it suspends in rate_limiter.acquire.
Request_Call ==
    /\ rqPc \in {"idle", "done"}
    /\ rqCalls < MaxRequests
    /\ rqCalls' = rqCalls + 1
    /\ rqPc' = "acquire"
    /\ rqAttempt' = 0
    /\ rqSent' = 0
    /\ rqWaits' = <<>>
    /\ rqResult' = "none"
    /\ rqAllTransient' = TRUE
    /\ UNCHANGED <<max_retries, retry_delay>>
    /\ UNCHANGED notReq

\* acquire returned: `for attempt in range(max_retries)` starts its first
\* attempt, or, with an empty range, the call returns the error result
\* {"error": "Max retries exceeded"}.
Request_Acquired ==
    /\ rqPc = "acquire"
    /\ IF max_retries = 0
       THEN /\ rqPc' = "done"
            /\ rqResult' = "error_result"
       ELSE /\ rqPc' = "attempt"
            /\ UNCHANGED rqResult
    /\ UNCHANGED <<max_retries, retry_delay, rqAttempt, rqSent, rqWaits, rqAllTransient, rqCalls>>
    /\ UNCHANGED notReq

\* The attempt is over: a response is returned; a transient failure is
\* followed by the backoff sleep or, on the last attempt, raised; any other
\* exception is raised at once.
Request_AttemptReturn ==
    /\ rqPc = "attempt"
    /\ rqSent' = rqSent + 1
    /\ \E o \in AttemptOutcomes :
         /\ rqAllTransient' = (rqAllTransient /\ o = "transient")
         /\ IF o = "ok"
            THEN /\ rqPc' = "done"
                 /\ rqResult' = "result"
                 /\ UNCHANGED rqWaits
            ELSE IF o = "transient" /\ RetryAgain(rqAttempt, max_retries)
            THEN /\ rqPc' = "backoff"
                 /\ rqWaits' = Append(rqWaits, BackoffDelay(retry_delay, rqAttempt))
                 /\ UNCHANGED rqResult
            ELSE /\ rqPc' = "done"
                 /\ rqResult' = "raised"
                 /\ UNCHANGED rqWaits
    /\ UNCHANGED <<max_retries, retry_delay, rqAttempt, rqCalls>>
    /\ UNCHANGED notReq

\* The backoff sleep is over: the next attempt.
Request_BackoffDone ==
    /\ rqPc = "backoff"
    /\ rqAttempt' = rqAttempt + 1
    /\ rqPc' = "attempt"
    /\ UNCHANGED <<max_retries, retry_delay, rqSent, rqWaits, rqResult, rqAllTransient, rqCalls>>
    /\ UNCHANGED notReq

\* Every configuration BridgeConfig.validate accepts, scaled down.
RequestInit ==
    /\ OrchInit /\ LockIdle /\ PushIdle /\ AdmitIdle /\ LinkIdle /\ ConnIdle /\ SendIdle /\ SecIdle /\ ReadIdle /\ MacroIdle /\ RateIdle /\ BackoffIdle /\ TranslateIdle /\ TempIdle
    /\ \E n \in 0..MaxRetries, d \in 0..MaxDelay : MoonrakerClient(n, d)

RequestNext ==
    \/ Request_Call
    \/ Request_Acquired
    \/ Request_AttemptReturn
    \/ Request_BackoffDone

RequestSpec == RequestInit /\ [][RequestNext]_vars

\* ------------------------------- tft_connection_monitor: the retry delay
\* A backoff that grew without looking at the maximum.
UncappedDelay(d) == (d * 3) \div 2

\* `tft_retry_delay = min(tft_retry_delay * 1.5, max_retry_delay)`
DelayAfterFailure(d) ==
    IF (d * 3) \div 2 < max_retry_delay * DelayScale
    THEN (d * 3) \div 2
    ELSE max_retry_delay * DelayScale

\* `tft_retry_delay = 5.0` after a successful connect and after the poll sleep.
DelayAfterSuccess == base_retry_delay * DelayScale

\* The retry sleep is over: tft.connect() opens the port or returns False
\* (it raises nothing), the delay is reset or grown, and the loop head follows.
Backoff_Retry ==
    /\ mbPc = "retry"
    /\ mbAttempts < MaxAttempts
    /\ mbAttempts' = mbAttempts + 1
    /\ mbSlept' = tft_retry_delay
    /\ \E ok \in BOOLEAN :
         /\ mbConnected' = ok
         /\ mbLast' = IF ok THEN "connected" ELSE "failed"
         /\ tft_retry_delay' = IF ok THEN DelayAfterSuccess ELSE DelayAfterFailure(tft_retry_delay)
         /\ mbPc' = MonitorTop(TRUE, ok)
    /\ UNCHANGED notBackoff

\* The 10 s poll sleep is over: the delay is reset, and the loop head follows.
Backoff_Poll ==
    /\ mbPc = "sleep"
    /\ tft_retry_delay' = DelayAfterSuccess
    /\ mbPc' = MonitorTop(TRUE, mbConnected)
    /\ UNCHANGED <<mbConnected, mbSlept, mbLast, mbAttempts>>
    /\ UNCHANGED notBackoff

\* The link drops while the monitor sleeps: read_line or write_line met a
\* SerialException.
Backoff_LinkDown ==
    /\ mbConnected
    /\ mbConnected' = FALSE
    /\ UNCHANGED <<mbPc, tft_retry_delay, mbSlept, mbLast, mbAttempts>>
    /\ UNCHANGED notBackoff

BackoffInit == OrchInit /\ LockIdle /\ PushIdle /\ AdmitIdle /\ LinkIdle /\ ConnIdle /\ SendIdle /\ SecIdle /\ ReadIdle /\ MacroIdle /\ RateIdle /\ ReqIdle /\ BackoffIdle /\ TranslateIdle /\ TempIdle

BackoffNext ==
    \/ Backoff_Retry
    \/ Backoff_Poll
    \/ Backoff_LinkDown

BackoffSpec == BackoffInit /\ [][BackoffNext]_vars

\* ---------------------------------------- GCodeTranslator.translate_gcode
\* A command is a sequence of characters.  A pattern is a sequence of
\* elements: a literal character (compared without case, re.IGNORECASE), a
\* character class, \s+, a captured (\d+), a captured ([+-]?\d*\.?\d+), and a
\* final .* ; re.match anchors a pattern at the start of the text only.
Lit(cs) == [i \in 1..Len(cs) |-> [t |-> "lit", c |-> cs[i]]]
Class(S) == <<[t |-> "class", s |-> S]>>
WS == <<[t |-> "ws"]>>
DIGITS == <<[t |-> "digits"]>>
NUM == <<[t |-> "num"]>>
ANY == <<[t |-> "any"]>>

LowerLetters == <<"a", "b", "c", "d", "e", "f", "g", "h", "i", "j", "k", "l", "m",
                  "n", "o", "p", "q", "r", "s", "t", "u", "v", "w", "x", "y", "z">>
UpperLetters == <<"A", "B", "C", "D", "E", "F", "G", "H", "I", "J", "K", "L", "M",
                  "N", "O", "P", "Q", "R", "S", "T", "U", "V", "W", "X", "Y", "Z">>

\* str.upper(), of one character and of a text.
UpperChar(c) ==
    IF \E i \in 1..26 : LowerLetters[i] = c
    THEN UpperLetters[CHOOSE i \in 1..26 : LowerLetters[i] = c]
    ELSE c

Upper(t) == [i \in 1..Len(t) |-> UpperChar(t[i])]

Digit == {"0", "1", "2", "3", "4", "5", "6", "7", "8", "9"}

\* The characters of a text as one string.
RECURSIVE Join(_)
Join(t) == IF t = <<>> THEN "" ELSE Head(t) \o Join(Tail(t))

\* How many leading characters of t are in S (a greedy \s+ or \d+).
RECURSIVE Leading(_, _)
Leading(t, S) == IF t # <<>> /\ Head(t) \in S THEN 1 + Leading(Tail(t), S) ELSE 0

\* The length of what [+-]?\d*\.?\d+ matches at the start of t (0: no
\* match): an optional sign, the leading digits, and a point only when a
\* digit follows it.
NumLen(t) ==
    LET sign == IF t # <<>> /\ Head(t) \in {"+", "-"} THEN 1 ELSE 0
        body == SubSeq(t, sign + 1, Len(t))
        int  == Leading(body, Digit)
        rest == SubSeq(body, int + 1, Len(body))
        frac == IF rest # <<>> /\ Head(rest) = "." THEN Leading(Tail(rest), Digit) ELSE 0
    IN  IF frac > 0 THEN sign + int + 1 + frac
        ELSE IF int > 0 THEN sign + int
        ELSE 0

\* re.match(pattern, text, re.IGNORECASE): whether the pattern matches at the
\* start of t, and the captured groups.
RECURSIVE Match(_, _, _)
Match(pattern, t, groups) ==
    IF pattern = <<>> THEN [ok |-> TRUE, groups |-> groups]
    ELSE LET e == Head(pattern)
             n == IF e.t = "lit" THEN (IF t # <<>> /\ UpperChar(Head(t)) = UpperChar(e.c) THEN 1 ELSE 0)
                  ELSE IF e.t = "class" THEN (IF t # <<>> /\ Head(t) \in e.s THEN 1 ELSE 0)
                  ELSE IF e.t = "ws" THEN Leading(t, {" "})
                  ELSE IF e.t = "digits" THEN Leading(t, Digit)
                  ELSE IF e.t = "num" THEN NumLen(t)
                  ELSE Len(t)
             g == IF e.t \in {"digits", "num"} THEN Append(groups, SubSeq(t, 1, n)) ELSE groups
         IN  IF n = 0 /\ e.t # "any"
             THEN [ok |-> FALSE, groups |-> <<>>]
             ELSE Match(Tail(pattern), SubSeq(t, n + 1, Len(t)), g)

Matches(pattern, t) == Match(pattern, t, <<>>).ok

\* self.translations, in the order of the dict.
translations ==
    <<
      [pat |-> Lit(<<"M", "4", "2", "0">>) \o WS \o Lit(<<"S", "1">>),
       kind |-> "text", text |-> "BED_MESH_PROFILE LOAD=default"],
      [pat |-> Lit(<<"M", "4", "2", "0">>) \o WS \o Lit(<<"S", "0">>),
       kind |-> "text", text |-> "BED_MESH_CLEAR"],
      [pat |-> Lit(<<"G", "2", "9">>),
       kind |-> "text", text |-> "BED_MESH_CALIBRATE"],
      [pat |-> Lit(<<"M", "4", "2", "1">>) \o WS \o Lit(<<"I">>) \o DIGITS \o WS \o Lit(<<"J">>) \o DIGITS \o WS \o Lit(<<"Z">>) \o NUM,
       kind |-> "mesh_point", text |-> ""],
      [pat |-> Lit(<<"M", "3", "0", "3">>) \o WS \o Lit(<<"E", "0">>) \o WS \o Lit(<<"C", "8">>) \o WS \o Lit(<<"U", "1">>),
       kind |-> "text", text |-> "PID_CALIBRATE HEATER=extruder"],
      [pat |-> Lit(<<"M", "3", "0", "3">>) \o WS \o Lit(<<"E", "-", "1">>) \o WS \o Lit(<<"C", "8">>) \o WS \o Lit(<<"U", "1">>),
       kind |-> "text", text |-> "PID_CALIBRATE HEATER=heater_bed"],
      [pat |-> Lit(<<"M", "2", "8", "0">>) \o WS \o Lit(<<"P", "0">>) \o WS \o Lit(<<"S", "1", "0">>),
       kind |-> "text", text |-> "BLTOUCH_DEBUG COMMAND=pin_down"],
      [pat |-> Lit(<<"M", "2", "8", "0">>) \o WS \o Lit(<<"P", "0">>) \o WS \o Lit(<<"S", "9", "0">>),
       kind |-> "text", text |-> "BLTOUCH_DEBUG COMMAND=pin_up"],
      [pat |-> Lit(<<"M", "2", "8", "0">>) \o WS \o Lit(<<"P", "0">>) \o WS \o Lit(<<"S", "1", "6", "0">>),
       kind |-> "text", text |-> "BLTOUCH_DEBUG COMMAND=reset"],
      [pat |-> Lit(<<"M", "4", "0", "1">>),
       kind |-> "text", text |-> "PROBE_CALIBRATE"],
      [pat |-> Lit(<<"M", "4", "8">>),
       kind |-> "text", text |-> "PROBE_ACCURACY"],
      [pat |-> Lit(<<"M", "7", "0", "1">>),
       kind |-> "text", text |-> "LOAD_FILAMENT"],
      [pat |-> Lit(<<"M", "7", "0", "2">>),
       kind |-> "text", text |-> "UNLOAD_FILAMENT"],
      [pat |-> Lit(<<"M", "5", "0", "0">>),
       kind |-> "text", text |-> "SAVE_CONFIG"],
      [pat |-> Lit(<<"M", "5", "0", "3">>),
       kind |-> "text", text |-> "# Settings saved in printer.cfg"],
      [pat |-> Lit(<<"M", "8", "5", "1">>) \o WS \o Lit(<<"Z">>) \o NUM,
       kind |-> "z_offset", text |-> ""]
    >>

\* passthrough_patterns, in the order of the list.
passthrough_patterns ==
    <<
      Lit(<<"G">>) \o Class({"0", "1"}) \o WS \o ANY,
      Lit(<<"G", "2", "8">>) \o ANY,
      Lit(<<"G", "9">>) \o Class({"0", "1"}),
      Lit(<<"G", "9", "2">>) \o ANY,
      Lit(<<"M", "1", "0">>) \o Class({"4", "5", "6", "7", "8", "9"}) \o ANY,
      Lit(<<"M", "1", "1">>) \o Class({"4", "5"}) \o ANY,
      Lit(<<"M", "1">>) \o Class({"8", "9"}) \o Lit(<<"0">>) \o ANY,
      Lit(<<"M", "2", "2", "0">>) \o ANY,
      Lit(<<"M", "2", "2", "1">>) \o ANY,
      Lit(<<"M">>) \o Class({"2", "3"}) \o Class({"0", "1", "2", "3", "4", "5", "6", "7", "8", "9"}) \o ANY
    >>

\* What a rule gives for a match: its text, or the result of its lambda.
Replacement(rule, groups) ==
    IF rule.kind = "mesh_point"
    THEN "BED_MESH_CALIBRATE MESH_MIN=" \o Join(groups[1]) \o "," \o Join(groups[2])
             \o " MESH_MAX=" \o Join(groups[1]) \o "," \o Join(groups[2])
    ELSE IF rule.kind = "z_offset"
    THEN "SET_GCODE_OFFSET Z=" \o Join(groups[1]) \o " MOVE=1"
    ELSE rule.text

\* The rules that match g, and the passthrough patterns that do.
MatchingRules(g) == {i \in 1..Len(translations) : Matches(translations[i].pat, g)}

MatchesPassthrough(g) == \E i \in 1..Len(passthrough_patterns) : Matches(passthrough_patterns[i], g)

\* A translator that tried the passthrough patterns before the rules.
PassthroughFirst(g) == ~MatchesPassthrough(g) /\ MatchingRules(g) # {}

\* The rule loop comes before the passthrough loop: a rule that matches
\* decides.
RuleDecides(g) == MatchingRules(g) # {}

\* A translator that forwarded the user's macro without looking it up.
AssumeMacro(name, macros) == TRUE

\* `if "LOAD_FILAMENT" in self.available_macros`
HasMacro(name, macros) == name \in macros

\* The result of translate_gcode: <<>> for None, <<text>> for a text.
None == <<>>

\* translate_gcode once check_available_macros has returned.
translate_gcode(gcode, macros) ==
    LET g == Strip(gcode)
        first == CHOOSE i \in MatchingRules(g) : \A j \in MatchingRules(g) : i <= j
    IN  IF g = <<>> THEN None
        ELSE IF Upper(g) = <<"M", "7", "0", "1">>
        THEN (IF HasMacro("LOAD_FILAMENT", macros) THEN <<"LOAD_FILAMENT">> ELSE <<"TFT_LOAD_FILAMENT">>)
        ELSE IF Upper(g) = <<"M", "7", "0", "2">>
        THEN (IF HasMacro("UNLOAD_FILAMENT", macros) THEN <<"UNLOAD_FILAMENT">>
              ELSE <<"TFT_UNLOAD_FILAMENT">>)
        ELSE IF RuleDecides(g)
        THEN <<Replacement(translations[first], Match(translations[first].pat, g, <<>>).groups)>>
        ELSE IF MatchesPassthrough(g) THEN <<Join(g)>>
        ELSE None

\* The commands translate_gcode is given.
Commands ==
    {
      <<"M", "1", "1", "5">>,
      <<"M", "1", "0", "5">>,
      <<"m", "1", "1", "5">>,
      <<"M", "1", "0", "5", " ", "T", "0">>,
      <<"M", "1", "1", "5", " ", "e", "x", "t", "r", "a">>,
      <<"M", "7", "0", "1">>,
      <<"M", "7", "0", "2">>,
      <<"m", "7", "0", "1">>,
      <<" ", "M", "7", "0", "2", " ">>,
      <<"M", "7", "0", "1", " ", "T", "0">>,
      <<"M", "4", "2", "0", " ", "S", "1">>,
      <<"M", "4", "2", "0", " ", "S", "0">>,
      <<"m", "4", "2", "0", " ", "s", "1">>,
      <<"M", "4", "2", "0", " ", " ", "S", "1">>,
      <<"M", "4", "2", "1", " ", "I", "1", "0", " ", "J", "5", " ", "Z", "0", ".", "1">>,
      <<"M", "4", "2", "1", " ", "I", "1", " ", "J", "2", " ", "Z", ".", "5">>,
      <<"M", "8", "5", "1", " ", "Z", "-", "1", ".", "5">>,
      <<"M", "8", "5", "1", " ", "Z", "5">>,
      <<"G", "2", "9">>,
      <<"M", "3", "0", "3", " ", "E", "0", " ", "C", "8", " ", "U", "1">>,
      <<"M", "3", "0", "3", " ", "E", "-", "1", " ", "C", "8", " ", "U", "1">>,
      <<"M", "2", "8", "0", " ", "P", "0", " ", "S", "1", "0">>,
      <<"M", "2", "8", "0", " ", "P", "0", " ", "S", "9", "0">>,
      <<"M", "2", "8", "0", " ", "P", "0", " ", "S", "1", "6", "0">>,
      <<"M", "4", "0", "1">>,
      <<"M", "4", "8">>,
      <<"M", "5", "0", "0">>,
      <<"M", "5", "0", "3">>,
      <<"G", "2", "8">>,
      <<"G", "2", "8", " ", "X">>,
      <<"G", "1", " ", "X", "1", "0">>,
      <<"G", "0">>,
      <<"G", "9", "0">>,
      <<"G", "9", "2", " ", "E", "0">>,
      <<"M", "1", "0", "4", " ", "S", "2", "0", "0">>,
      <<"M", "1", "1", "4">>,
      <<"M", "1", "9", "0", " ", "S", "6", "0">>,
      <<"M", "2", "2", "0", " ", "S", "1", "0", "0">>,
      <<"M", "2", "2", "1", " ", "S", "9", "5">>,
      <<"M", "2", "4">>,
      <<"M", "9", "9", "9">>,
      <<"T", "0">>,
      <<"M", "6", "0", "0">>,
      <<"M", "4", "2", "0">>,
      <<>>,
      <<" ">>
    }

\* One call of translate_gcode.
Translate ==
    /\ ~trDone
    /\ trOut' = translate_gcode(trCmd, trMacros)
    /\ trDone' = TRUE
    /\ UNCHANGED <<trCmd, trMacros>>
    /\ UNCHANGED notTranslate

\* Every command with every content of the registry.
TranslateInit ==
    /\ OrchInit /\ LockIdle /\ PushIdle /\ AdmitIdle /\ LinkIdle /\ ConnIdle /\ SendIdle /\ SecIdle /\ ReadIdle /\ MacroIdle /\ RateIdle /\ ReqIdle /\ BackoffIdle /\ TempIdle
    /\ trCmd \in Commands
    /\ trMacros \in SUBSET MacroNames
    /\ trOut = <<>>
    /\ trDone = FALSE

TranslateNext == Translate

TranslateSpec == TranslateInit /\ [][TranslateNext]_vars

\* --------------------------------------- TFTMoonrakerBridge.handle_m105
\* A temperature of the status response, in hundredths of a degree: a number,
\* a missing key (dict.get gives 0), or a value `:.1f` cannot format.
Temperatures == {6000, 6010, 20530, 21000, 2525}

Values == [k : {"num"}, v : Temperatures] \cup [k : {"missing", "bad"}, v : {0}]

\* A heater entry of the status section, or its absence.
Absent == [present |-> FALSE, temperature |-> [k |-> "missing", v |-> 0],
           target |-> [k |-> "missing", v |-> 0]]

Heaters == [present : {TRUE}, temperature : Values, target : Values] \cup {Absent}

\* What get_printer_status gives handle_m105: a status section, an error
\* result (every failure of the request ends as one), a result that is no
\* dict, or a result without a status section.
Statuses ==
    [kind : {"status"}, extruder : Heaters, heater_bed : Heaters]
        \cup [kind : {"error", "result_not_dict", "no_status"},
              extruder : {Absent}, heater_bed : {Absent}]

\* The fixed reply of handle_m105 when it has no temperatures.
FallbackLine == "ok T:0.0 /0.0 B:0.0 /0.0"

\* The number a value stands for, in hundredths.
Number(val) == IF val.k = "num" THEN val.v ELSE 0

\* `:.1f` of a number of hundredths that a float holds exactly: rounded to
\* tenths, a half to the even tenth, and written with one decimal.
Tenths(h) ==
    LET q == h \div 10
        r == h % 10
    IN  IF r < 5 THEN q
        ELSE IF r > 5 THEN q + 1
        ELSE IF q % 2 = 0 THEN q ELSE q + 1

Format1(h) == ToString(Tenths(h) \div 10) \o "." \o ToString(Tenths(h) % 10)

\* f"T:{temperature:.1f} /{target:.1f}" and the same with B.
TempPart(letter, heater) ==
    letter \o ":" \o Format1(Number(heater.temperature)) \o " /" \o Format1(Number(heater.target))

\* A heater entry with a value that makes the f-string raise.
Unformattable(heater) ==
    heater.present /\ (heater.temperature.k = "bad" \/ heater.target.k = "bad")

\* A report that put the bed before the extruder.
BedFirst(ext, bed) ==
    (IF bed.present THEN <<TempPart("B", bed)>> ELSE <<>>)
        \o (IF ext.present THEN <<TempPart("T", ext)>> ELSE <<>>)

\* temp_parts: the extruder part, then the bed part, each if present.
temp_parts(ext, bed) ==
    (IF ext.present THEN <<TempPart("T", ext)>> ELSE <<>>)
        \o (IF bed.present THEN <<TempPart("B", bed)>> ELSE <<>>)

\* " ".join(temp_parts)
JoinParts(parts) ==
    IF Len(parts) = 2 THEN parts[1] \o " " \o parts[2]
    ELSE IF Len(parts) = 1 THEN parts[1]
    ELSE ""

\* A reply built from the parts even when there is none.
ResponseNoFallback(parts) == "ok " \o JoinParts(parts)

\* `response = "ok " + " ".join(temp_parts) if temp_parts else <fallback>`
Response(parts) == IF parts # <<>> THEN "ok " \o JoinParts(parts) ELSE FallbackLine

\* handle_m105 after get_printer_status: the lines it passes to write_line.
\* An exception raised while the reply is built (a result that is no dict, a
\* value that cannot be formatted) is caught and the fallback is written.
handle_m105(s) ==
    IF s.kind = "status"
    THEN IF Unformattable(s.extruder) \/ Unformattable(s.heater_bed)
         THEN <<FallbackLine>>
         ELSE <<Response(temp_parts(s.extruder, s.heater_bed))>>
    ELSE <<FallbackLine>>

\* One call of handle_m105.
HandleM105 ==
    /\ ~m105Done
    /\ m105Writes' = handle_m105(status)
    /\ m105Done' = TRUE
    /\ UNCHANGED status
    /\ UNCHANGED notTemp

\* Every status response.
TempInit ==
    /\ OrchInit /\ LockIdle /\ PushIdle /\ AdmitIdle /\ LinkIdle /\ ConnIdle /\ SendIdle /\ SecIdle /\ ReadIdle /\ MacroIdle /\ RateIdle /\ ReqIdle /\ BackoffIdle /\ TranslateIdle
    /\ status \in Statuses
    /\ m105Writes = <<>>
    /\ m105Done = FALSE

TempNext == HandleM105

TempSpec == TempInit /\ [][TempNext]_vars

\* ------------------------------------------------------- SecurityValidator
\* \w of the pattern of sanitize_gcode, for the characters used here.
WordChars ==
    {LowerLetters[i] : i \in 1..Len(LowerLetters)} \cup {UpperLetters[i] : i \in 1..Len(UpperLetters)}
        \cup {"0", "1", "2", "3", "4", "5", "6", "7", "8", "9", "_"}

\* A character the pattern [^\w\s\.\-\+\=\:] does not remove.
Kept(c) == c \in WordChars \cup Whitespace \cup {".", "-", "+", "=", ":"}

\* `if len(sanitized) > 1000`
MaxGcodeLength == 1000

\* `if len(filename) > 255`
MaxFilenameLength == 255

\* sanitize_gcode: "" for an empty argument; else strip, remove every
\* character outside the allowed set, cut to the first 1000 characters.
sanitize_gcode(gcode) ==
    LET sanitized == SelectSeq(Strip(gcode), Kept)
    IN  IF gcode = <<>> THEN <<>>
        ELSE IF Len(sanitized) > MaxGcodeLength THEN SubSeq(sanitized, 1, MaxGcodeLength)
        ELSE sanitized

\* `'..' in filename`
HasDotDot(f) == \E i \in 1..(Len(f) - 1) : f[i] = "." /\ f[i + 1] = "."

\* os.path.isabs on POSIX, and filename.startswith('/').
IsAbs(f) == f # <<>> /\ f[1] = "/"

\* validate_filename, check by check.
validate_filename(filename) ==
    IF filename = <<>> THEN FALSE
    ELSE IF HasDotDot(filename) \/ IsAbs(filename) \/ (\E i \in 1..Len(filename) : filename[i] = "\\")
    THEN FALSE
    ELSE IF IsAbs(filename) THEN FALSE
    ELSE IF Len(filename) > MaxFilenameLength THEN FALSE
    ELSE TRUE

\* The text c repeated n times.
Repeat(c, n) == [i \in 1..n |-> c]

\* The arguments given to the validator: every short text over a few
\* characters, the names of the documentation, and texts around the limits.
SecChars == {"a", ".", "/", "\\", " ", ";"}

SecInputs ==
    UNION {[1..n -> SecChars] : n \in 0..MaxText}
        \cup { <<".", ".", "/", ".", ".", "/", "e", "t", "c", "/", "p", "a", "s", "s", "w", "d">>,
               <<"/", "a", "b", "s", "/", "p", "a", "t", "h", ".", "g", "c", "o", "d", "e">>,
               <<"j", "o", "b", ".", "g", "c", "o", "d", "e">>,
               <<"s", "u", "b", "/", "j", "o", "b", ".", "g", "c", "o", "d", "e">>,
               <<"G", "2", "8", " ", ";", " ", "h", "o", "m", "e">>,
               <<"M", "1", "1", "7", " ", "H", "e", "l", "l", "o", "!">>,
               Repeat("a", MaxFilenameLength), Repeat("a", MaxFilenameLength + 1),
               Repeat("a", MaxGcodeLength), Repeat("a", MaxGcodeLength + 1),
               Repeat("a", MaxGcodeLength - 1) \o <<" ", "b">> }

\* sanitize_gcode applied to the argument, and again to its own result.
Sanitize ==
    /\ "sanitize" \notin secDone
    /\ secOut' = sanitize_gcode(secIn)
    /\ secOut2' = sanitize_gcode(sanitize_gcode(secIn))
    /\ secDone' = secDone \cup {"sanitize"}
    /\ UNCHANGED <<secIn, secValid>>
    /\ UNCHANGED notSec

\* validate_filename applied to the argument.
ValidateFilename ==
    /\ "validate" \notin secDone
    /\ secValid' = validate_filename(secIn)
    /\ secDone' = secDone \cup {"validate"}
    /\ UNCHANGED <<secIn, secOut, secOut2>>
    /\ UNCHANGED notSec

SecInit ==
    /\ OrchInit /\ LockIdle /\ PushIdle /\ AdmitIdle /\ LinkIdle /\ ConnIdle /\ SendIdle /\ ReadIdle /\ MacroIdle /\ RateIdle /\ ReqIdle /\ BackoffIdle /\ TranslateIdle
    /\ TempIdle
    /\ secIn \in SecInputs
    /\ secOut = <<>>
    /\ secOut2 = <<>>
    /\ secValid = FALSE
    /\ secDone = {}

SecNext == Sanitize \/ ValidateFilename

SecSpec == SecInit /\ [][SecNext]_vars

\* ----------------------------------------------- MoonrakerClient.send_gcode
\* The commands send_gcode is given: translations, passed-through lines,
\* texts the sanitizer changes and texts it empties.
SendCommands ==
    { <<"G", "2", "8">>,
      <<"L", "O", "A", "D", "_", "F", "I", "L", "A", "M", "E", "N", "T">>,
      <<"B", "E", "D", "_", "M", "E", "S", "H", "_", "P", "R", "O", "F", "I", "L", "E", " ", "L", "O", "A", "D", "=", "d", "e", "f", "a", "u", "l", "t">>,
      <<"M", "1", "1", "7", " ", "H", "i", "!">>,
      <<"G", "1", " ", "X", "1", "0", " ", ";", " ", "g", "o">>,
      <<";">>,
      <<"!">>,
      <<>>,
      <<" ">> }

\* How _make_request ends: a response, a response that holds "error", or an
\* exception (send_gcode turns it into an error result).
RequestOutcomes == {"ok", "error_result", "raise"}

\* A send_gcode that posted the script in test mode as well.
NeverShortCircuit(tm) == FALSE

\* `if self.config.test_mode:` log the command and return without a request.
ShortCircuit(tm) == tm

\* send_gcode up to its return or to its await of _make_request.
Send_Call ==
    /\ sgPc \in {"idle", "done"}
    /\ sgCalls < MaxSends
    /\ sgCalls' = sgCalls + 1
    /\ \E gcode \in SendCommands :
         LET sanitized_gcode == sanitize_gcode(gcode)
         IN  /\ sgCmd' = gcode
             /\ IF sanitized_gcode = <<>>
                THEN /\ sgPc' = "done"
                     /\ sgResult' = "error"
                     /\ UNCHANGED <<sgLogged, sgPosted>>
                ELSE IF ShortCircuit(test_mode)
                THEN /\ sgPc' = "done"
                     /\ sgResult' = "test_ok"
                     /\ sgLogged' = Append(sgLogged, [gcode |-> gcode, translated |-> sanitized_gcode])
                     /\ UNCHANGED sgPosted
                ELSE /\ sgPc' = "request"
                     /\ sgResult' = "none"
                     /\ sgPosted' = Append(sgPosted, sanitized_gcode)
                     /\ UNCHANGED sgLogged
    /\ UNCHANGED test_mode
    /\ UNCHANGED notSend

\* _make_request returns or raises: send_gcode returns its response, or an
\* error result made from the exception.
Send_RequestReturn ==
    /\ sgPc = "request"
    /\ \E o \in RequestOutcomes : sgResult' = (IF o = "ok" THEN "ok" ELSE "error")
    /\ sgPc' = "done"
    /\ UNCHANGED <<test_mode, sgCmd, sgLogged, sgPosted, sgCalls>>
    /\ UNCHANGED notSend

\* A client in test mode or not.
SendInit ==
    /\ OrchInit /\ LockIdle /\ PushIdle /\ AdmitIdle /\ LinkIdle /\ ConnIdle /\ ReadIdle /\ MacroIdle /\ RateIdle /\ ReqIdle /\ BackoffIdle /\ TranslateIdle
    /\ TempIdle /\ SecIdle
    /\ test_mode \in BOOLEAN
    /\ sgCmd = <<>>
    /\ sgPc = "idle"
    /\ sgLogged = <<>>
    /\ sgPosted = <<>>
    /\ sgResult = "none"
    /\ sgCalls = 0

SendNext == Send_Call \/ Send_RequestReturn

SendSpec == SendInit /\ [][SendNext]_vars

\* --------------------------------------------------------- ConnectionManager
\* The awaits at which the supervisor task can be suspended.
SupervisorAwaits == {"ws_connect", "backoff", "sleep"}

\* `if not self.connected or (self.websocket and self.websocket.closed)`
NeedsConnect(conn, ws) == ~conn \/ ws = "closed"

\* A supervisor that reconnected only a websocket it had seen closing.
OnlyWhenClosed(conn, ws) == ws = "closed"

\* Whether the loop calls connect_websocket in this iteration.
CallsConnect(conn, ws) == NeedsConnect(conn, ws)

\* connect_websocket from its start: with no attempt to make it sets
\* connected False and returns, else it suspends in ws_connect.
BeginConnect ==
    IF cmRetries = 0
    THEN /\ cmConnected' = FALSE
         /\ cmLast' = "failed"
         /\ cmPc' = "sleep"
         /\ UNCHANGED cmAttempt
    ELSE /\ cmPc' = "ws_connect"
         /\ cmAttempt' = 0
         /\ UNCHANGED <<cmConnected, cmLast>>

\* The task starts or its 30 s sleep ends: one pass of `while True` up to the
\* next await.
Conn_Iter ==
    /\ cmPc \in {"new", "sleep"}
    /\ ~cmCancel
    /\ IF CallsConnect(cmConnected, cmWs)
       THEN BeginConnect
       ELSE /\ cmPc' = "sleep"
            /\ UNCHANGED <<cmAttempt, cmConnected, cmLast>>
    /\ UNCHANGED <<cmRetries, cmCancel, cmWs, cmSession, cmStopPc, hostUp>>
    /\ UNCHANGED notConn

\* ws_connect returns the websocket (the host is up) or raises: the websocket
\* is kept and connected set, or the attempt is retried after a delay, or,
\* after the last attempt, connected is set False and False returned.
Conn_WsConnectReturn ==
    /\ cmPc = "ws_connect"
    /\ ~cmCancel
    /\ IF hostUp
       THEN /\ cmWs' = "open"
            /\ cmConnected' = TRUE
            /\ cmLast' = "connected"
            /\ cmPc' = "sleep"
       ELSE IF RetryAgain(cmAttempt, cmRetries)
       THEN /\ cmPc' = "backoff"
            /\ UNCHANGED <<cmWs, cmConnected, cmLast>>
       ELSE /\ cmConnected' = FALSE
            /\ cmLast' = "failed"
            /\ cmPc' = "sleep"
            /\ UNCHANGED cmWs
    /\ UNCHANGED <<cmRetries, cmAttempt, cmCancel, cmSession, cmStopPc, hostUp>>
    /\ UNCHANGED notConn

\* The delay between two attempts is over.
Conn_BackoffDone ==
    /\ cmPc = "backoff"
    /\ ~cmCancel
    /\ cmAttempt' = cmAttempt + 1
    /\ cmPc' = "ws_connect"
    /\ UNCHANGED <<cmRetries, cmCancel, cmConnected, cmWs, cmSession, cmLast, cmStopPc, hostUp>>
    /\ UNCHANGED notConn

\* The cancelled task is resumed with CancelledError at its await (in
\* ws_connect, in a delay of connect_websocket or in the 30 s sleep; it is no
\* Exception, so only `except asyncio.CancelledError: break` handles it), or
\* it is cancelled before it ever ran.
Conn_Cancelled ==
    /\ cmCancel
    /\ cmPc \in SupervisorAwaits \cup {"new"}
    /\ cmPc' = "ended"
    /\ cmCancel' = FALSE
    /\ UNCHANGED <<cmRetries, cmAttempt, cmConnected, cmWs, cmSession, cmLast, cmStopPc, hostUp>>
    /\ UNCHANGED notConn

\* The host goes down (an open websocket is closed by it) or comes up.
Host_Change ==
    /\ hostUp' = ~hostUp
    /\ cmWs' = IF hostUp /\ cmWs = "open" THEN "closed" ELSE cmWs
    /\ UNCHANGED <<cmRetries, cmPc, cmAttempt, cmCancel, cmConnected, cmSession, cmLast, cmStopPc>>
    /\ UNCHANGED notConn

\* A stop() that went on to cleanup() without awaiting the task.
DontAwaitTask(pc) == TRUE

\* `await self.reconnect_task`: stop goes on when the task has ended.
AwaitTask(pc) == pc = "ended"

\* stop(): cancel the supervisor task and await it.
Stop_Call ==
    /\ cmStopPc = "idle"
    /\ cmCancel' = (cmPc # "ended")
    /\ cmStopPc' = "await_task"
    /\ UNCHANGED <<cmRetries, cmPc, cmAttempt, cmConnected, cmWs, cmSession, cmLast, hostUp>>
    /\ UNCHANGED notConn

\* The task has ended: cleanup() closes the websocket if it is open and
\* suspends there, else goes on to the session.
Stop_CloseWebsocket ==
    /\ cmStopPc = "await_task"
    /\ AwaitTask(cmPc)
    /\ cmWs' = IF cmWs = "open" THEN "closed" ELSE cmWs
    /\ cmStopPc' = "close_session"
    /\ UNCHANGED <<cmRetries, cmPc, cmAttempt, cmCancel, cmConnected, cmSession, cmLast, hostUp>>
    /\ UNCHANGED notConn

\* cleanup() closes the session, sets connected False, and stop() returns.
Stop_Return ==
    /\ cmStopPc = "close_session"
    /\ cmSession' = FALSE
    /\ cmConnected' = FALSE
    /\ cmStopPc' = "returned"
    /\ UNCHANGED <<cmRetries, cmPc, cmAttempt, cmCancel, cmWs, cmLast, hostUp>>
    /\ UNCHANGED notConn

\* A started manager with any number of attempts, the host up or down.
ConnInit ==
    /\ OrchInit /\ LockIdle /\ PushIdle /\ AdmitIdle /\ LinkIdle /\ ReadIdle /\ MacroIdle /\ RateIdle /\ ReqIdle /\ BackoffIdle /\ TranslateIdle
    /\ TempIdle /\ SecIdle /\ SendIdle
    /\ \E n \in 0..MaxRetries, up \in BOOLEAN : ConnectionManager(n, up)

SupervisorNext == Conn_Iter \/ Conn_WsConnectReturn \/ Conn_BackoffDone \/ Conn_Cancelled

StopNext == Stop_Call \/ Stop_CloseWebsocket \/ Stop_Return

ConnNext == SupervisorNext \/ StopNext \/ Host_Change

ConnSpec == ConnInit /\ [][ConnNext]_vars

\* The event loop runs every task that is ready: a sleep ends, ws_connect
\* returns (the session's timeout bounds it), a cancelled task is resumed, a
\* stop() that was called goes on.  Nothing obliges anybody to call stop().
ConnLiveSpec ==
    ConnSpec /\ WF_vars(SupervisorNext) /\ WF_vars(Stop_CloseWebsocket \/ Stop_Return)

\* ------------------------- _make_request behind the limiter, over the clock
\* The task that issues the requests.
Requester == 1

\* `for attempt in range(self.config.max_retries)` is entered once acquire
\* has returned: the first attempt goes to the host, or, with an empty range,
\* the call returns the error result.
FirstAttempt ==
    IF max_retries = 0
    THEN /\ adPc' = "idle"
         /\ UNCHANGED adTimes
    ELSE /\ adPc' = "attempt"
         /\ adTimes' = Append(adTimes, clock)

\* _make_request is called: acquire runs first, and sleeps or returns.
Admit_Call ==
    /\ adPc = "idle"
    /\ adCalls < MaxRequests
    /\ adCalls' = adCalls + 1
    /\ rlPc[Requester] = "idle" /\ rlLock = 0
    /\ AcquireLocked(Requester)
    /\ adAttempt' = 0
    /\ IF rlPc'[Requester] = "idle"
       THEN FirstAttempt
       ELSE /\ adPc' = "acquire"
            /\ UNCHANGED adTimes
    /\ UNCHANGED <<max_requests, time_window, clock, acquiresStarted, adWake>>
    /\ UNCHANGED <<reqVars, notRateReq>>

\* The sleep of acquire is over: acquire returns and the loop is entered.
Admit_Acquired ==
    /\ adPc = "acquire"
    /\ AcquireWoken(Requester)
    /\ FirstAttempt
    /\ UNCHANGED <<max_requests, time_window, clock, acquiresStarted, adAttempt, adWake, adCalls>>
    /\ UNCHANGED <<reqVars, notRateReq>>

\* The attempt is over: a response or an exception ends the call, a transient
\* failure that is not the last starts `await asyncio.sleep(delay)`.
Admit_AttemptReturn ==
    /\ adPc = "attempt"
    /\ \E o \in AttemptOutcomes :
         IF o = "transient" /\ RetryAgain(adAttempt, max_retries)
         THEN /\ adPc' = "backoff"
              /\ adWake' = clock + BackoffDelay(retry_delay, adAttempt)
         ELSE /\ adPc' = "idle"
              /\ UNCHANGED adWake
    /\ UNCHANGED <<adAttempt, adTimes, adCalls>>
    /\ UNCHANGED <<rateVars, reqVars, notRateReq>>

\* The backoff sleep is over: the next pass of the loop sends its attempt;
\* acquire is not called again.
Admit_BackoffDone ==
    /\ adPc = "backoff"
    /\ clock >= adWake
    /\ adAttempt' = adAttempt + 1
    /\ adPc' = "attempt"
    /\ adTimes' = Append(adTimes, clock)
    /\ UNCHANGED <<adWake, adCalls>>
    /\ UNCHANGED <<rateVars, reqVars, notRateReq>>

\* A fresh limiter and a client with any accepted configuration.
AdmitInit ==
    /\ OrchInit /\ LockIdle /\ PushIdle /\ AdmitIdle /\ ReadIdle /\ MacroIdle /\ BackoffIdle /\ TranslateIdle
    /\ TempIdle /\ SecIdle /\ SendIdle /\ ConnIdle /\ LinkIdle
    /\ \E n \in 1..MaxCapacity, w \in 1..MaxWindow : RateLimiter(n, w)
    /\ \E n \in 0..MaxRetries, d \in 0..MaxDelay : MoonrakerClient(n, d)

AdmitNext ==
    \/ Admit_Call
    \/ Admit_Acquired
    \/ Admit_AttemptReturn
    \/ Admit_BackoffDone
    \/ Tick

AdmitSpec == AdmitInit /\ [][AdmitNext]_vars

\* ------------------------------- send_periodic_updates, over the clock
\* Times are held in half seconds: `self.temp_report_interval = 2.0`,
\* `await asyncio.sleep(0.5)`.
temp_report_interval == 4

PushSleep == 1

\* A loop that reported on every pass on which the link was connected.
ReportsWheneverConnected(conn, now, last) == conn

\* `if self.tft.connected:` and, with current_time = time.time(),
\* `if current_time - self.last_temp_report >= self.temp_report_interval`
StartsReport(conn, now, last) == conn /\ now - last >= temp_report_interval

\* One pass of the loop, when the task starts or its sleep is over: a report
\* is started (handle_m105 suspends on the status query) or the loop sleeps.
\* handle_m105 catches every exception, so the pass has no error path.
Push_Iter ==
    /\ psPc \in {"new", "sleeping"}
    /\ psPc = "sleeping" => psClock >= psWake
    /\ IF ~psRunning
       THEN /\ psPc' = "ended"
            /\ UNCHANGED <<psStarts, psNow, psWake>>
       ELSE IF StartsReport(psConnected, psClock, last_temp_report)
       THEN /\ psPc' = "status"
            /\ psNow' = psClock
            /\ psStarts' = Append(psStarts, [at |-> psClock, conn |-> psConnected])
            /\ UNCHANGED psWake
       ELSE /\ psPc' = "sleeping"
            /\ psWake' = psClock + PushSleep
            /\ UNCHANGED <<psStarts, psNow>>
    /\ UNCHANGED <<psClock, psRunning, psConnected, last_temp_report>>
    /\ UNCHANGED notPush

\* handle_m105 returns: `self.last_temp_report = current_time`, the time read
\* before the report, then the loop sleeps.
Push_ReportDone ==
    /\ psPc = "status"
    /\ last_temp_report' = psNow
    /\ psPc' = "sleeping"
    /\ psWake' = psClock + PushSleep
    /\ UNCHANGED <<psClock, psRunning, psConnected, psStarts, psNow>>
    /\ UNCHANGED notPush

\* The link is connected by the monitor, or lost by a failed read or write.
Push_LinkChange ==
    /\ psConnected' = ~psConnected
    /\ UNCHANGED <<psClock, psRunning, psPc, psStarts, psNow, psWake, last_temp_report>>
    /\ UNCHANGED notPush

\* The signal handler or cleanup clears self.running.
Push_Stop ==
    /\ psRunning
    /\ psRunning' = FALSE
    /\ UNCHANGED <<psClock, psConnected, psPc, psStarts, psNow, psWake, last_temp_report>>
    /\ UNCHANGED notPush

\* Half a second passes.
Push_Tick ==
    /\ psClock < MaxPushTime
    /\ psClock' = psClock + 1
    /\ UNCHANGED <<psRunning, psConnected, psPc, psStarts, psNow, psWake, last_temp_report>>
    /\ UNCHANGED notPush

\* TFTMoonrakerBridge.__init__ sets last_temp_report = 0; the clock of
\* time.time() is far beyond one interval when the task starts.
PushInit ==
    /\ OrchInit /\ LockIdle /\ ReadIdle /\ MacroIdle /\ RateIdle /\ ReqIdle /\ BackoffIdle /\ TranslateIdle
    /\ TempIdle /\ SecIdle /\ SendIdle /\ ConnIdle /\ LinkIdle /\ AdmitIdle
    /\ psClock = temp_report_interval
    /\ psRunning = TRUE
    /\ psConnected \in BOOLEAN
    /\ psPc = "new"
    /\ psStarts = <<>>
    /\ psNow = 0
    /\ psWake = 0
    /\ last_temp_report = 0

PushNext ==
    \/ Push_Iter
    \/ Push_ReportDone
    \/ Push_LinkChange
    \/ Push_Stop
    \/ Push_Tick

PushSpec == PushInit /\ [][PushNext]_vars

\* ------------------------------ the macro lock and the rate-limiter lock
\* The tasks that issue host requests: process_gcode of the read-dispatch
\* loop, send_periodic_updates, and the probe of MoonrakerClient.start.
Tasks == {"dispatch", "push", "probe"}

\* A limiter whose lock stayed with the caller that had acquired.
StillHeldBy(t, waiters) == t

\* The end of `async with self._lock` in acquire: the lock goes to the first
\* waiter, or is free.
ReleasedBy(t, waiters) == IF waiters = <<>> THEN "free" ELSE Head(waiters)

\* RateLimiter.acquire with the lock in hand: the window is full and the
\* caller sleeps with the lock held, or it records the request and releases
\* the lock (which of the two depends on the times of earlier requests).
AcquireWithLock(t) ==
    \E full \in BOOLEAN :
        IF full
        THEN /\ lsPc' = [lsPc EXCEPT ![t] = "rate_sleep"]
             /\ lsRateLock' = t
             /\ UNCHANGED lsRateWaiters
        ELSE /\ lsPc' = [lsPc EXCEPT ![t] = "host"]
             /\ lsRateLock' = ReleasedBy(t, lsRateWaiters)
             /\ lsRateWaiters' = WaitersAfterRelease(lsRateWaiters)

\* _make_request: `await self.rate_limiter.acquire()` takes the lock when it
\* is free, else queues for it.
MakeRequest(t) ==
    IF lsRateLock = "free"
    THEN AcquireWithLock(t)
    ELSE /\ lsRateWaiters' = Append(lsRateWaiters, t)
         /\ lsPc' = [lsPc EXCEPT ![t] = "rate_wait"]
         /\ UNCHANGED lsRateLock

\* process_gcode calls translate_gcode: check_available_macros returns at
\* once when the flag is set and a command may then be forwarded; else it
\* takes the macro lock (free: the dispatch loop is its only caller and runs
\* one dispatch at a time) and issues its query with the lock held.
Lock_Dispatch ==
    /\ lsPc["dispatch"] = "idle"
    /\ IF lsChecked
       THEN /\ MakeRequest("dispatch")
            /\ UNCHANGED lsMacroLock
       ELSE /\ lsMacroLock = "free"
            /\ lsMacroLock' = "dispatch"
            /\ MakeRequest("dispatch")
    /\ UNCHANGED lsChecked
    /\ UNCHANGED notLock

\* get_printer_status of the status-push loop, get_printer_info of the probe.
Lock_Request(t) ==
    /\ t \in Tasks \ {"dispatch"}
    /\ lsPc[t] = "idle"
    /\ MakeRequest(t)
    /\ UNCHANGED <<lsMacroLock, lsChecked>>
    /\ UNCHANGED notLock

\* A waiter got the rate-limiter lock.
Lock_RateGranted(t) ==
    /\ lsPc[t] = "rate_wait"
    /\ lsRateLock = t
    /\ AcquireWithLock(t)
    /\ UNCHANGED <<lsMacroLock, lsChecked>>
    /\ UNCHANGED notLock

\* The sleep of acquire is over: the request is recorded, the lock released.
Lock_SleepDone(t) ==
    /\ lsPc[t] = "rate_sleep"
    /\ lsPc' = [lsPc EXCEPT ![t] = "host"]
    /\ lsRateLock' = ReleasedBy(t, lsRateWaiters)
    /\ lsRateWaiters' = WaitersAfterRelease(lsRateWaiters)
    /\ UNCHANGED <<lsMacroLock, lsChecked>>
    /\ UNCHANGED notLock

\* The host call is over.  The query of check_available_macros sets the flag
\* and leaves `async with self._macro_check_lock`; translate_gcode returns
\* and process_gcode forwards the command (send_gcode) or not.  Any other
\* request returns to its caller.
Lock_HostReturn(t) ==
    /\ lsPc[t] = "host"
    /\ IF lsMacroLock = t
       THEN /\ lsChecked' = TRUE
            /\ lsMacroLock' = "free"
            /\ \E forwarded \in BOOLEAN :
                 IF forwarded
                 THEN MakeRequest(t)
                 ELSE /\ lsPc' = [lsPc EXCEPT ![t] = "idle"]
                      /\ UNCHANGED <<lsRateLock, lsRateWaiters>>
       ELSE /\ lsPc' = [lsPc EXCEPT ![t] = "idle"]
            /\ UNCHANGED <<lsMacroLock, lsChecked, lsRateLock, lsRateWaiters>>
    /\ UNCHANGED notLock

\* Both locks free, the registry not loaded.
LockInit ==
    /\ OrchInit /\ LockIdle /\ ReadIdle /\ MacroIdle /\ RateIdle /\ ReqIdle /\ BackoffIdle /\ TranslateIdle
    /\ TempIdle /\ SecIdle /\ SendIdle /\ ConnIdle /\ LinkIdle /\ AdmitIdle /\ PushIdle

LockCalls == Lock_Dispatch \/ \E t \in Tasks : Lock_Request(t)

\* What a task does once its sleep, its host call or its wait is over.
LockProgress(t) == Lock_RateGranted(t) \/ Lock_SleepDone(t) \/ Lock_HostReturn(t)

LockNext == LockCalls \/ \E t \in Tasks : LockProgress(t)

LockSpec == LockInit /\ [][LockNext]_vars

\* Sleeps and host calls return, and a task that can run is run.
LockLiveSpec == LockSpec /\ \A t \in Tasks : WF_vars(LockProgress(t))

\* ---------------------------------------- TFTSerial: the serial handles
\* What connect can do: the port does not exist, the test open fails, the
\* constructor of the handle raises, or the handle is opened.
ConnectOutcomes == {"missing", "probe_failed", "open_failed", "opened"}

\* What the serial calls of read_line and write_line can do: return, raise
\* serial.SerialException, or raise any other exception.
SerialOutcomes == {"ok", "serial_error", "other_error"}

\* `self.serial and self.serial.is_open`
SerialIsOpen == lkSerial # 0 /\ lkSerial \in lkOpen

\* connect, called by tft_connection_monitor when the link is not connected,
\* up to the return of the serial.Serial constructor: the handle self.serial
\* is bound to is not touched, and a new handle is open beside it.
Link_Connect ==
    /\ lkPc = "idle"
    /\ ~lkConnected
    /\ lkOpened < MaxHandles
    /\ \E o \in ConnectOutcomes :
         IF o = "opened"
         THEN /\ lkOpened' = lkOpened + 1
              /\ lkOpen' = lkOpen \cup {lkOpened + 1}
              /\ lkPc' = "constructed"
              /\ UNCHANGED <<lkConnected, lkSerial, lkLast>>
         ELSE /\ lkConnected' = FALSE
              /\ lkLast' = "connect_failed"
              /\ UNCHANGED <<lkSerial, lkOpen, lkOpened, lkPc>>
    /\ UNCHANGED notLink

\* `self.serial = ...` and `self.connected = True`: the new handle is bound.
\* Nothing closes the handle that was bound before; it is closed only if the
\* interpreter finalizes the unreferenced object.
Link_ConnectAssign ==
    /\ lkPc = "constructed"
    /\ lkSerial' = lkOpened
    /\ \E finalized \in BOOLEAN :
         lkOpen' = IF finalized THEN lkOpen \ {lkSerial} ELSE lkOpen
    /\ lkConnected' = TRUE
    /\ lkLast' = "connected"
    /\ lkPc' = "idle"
    /\ UNCHANGED lkOpened
    /\ UNCHANGED notLink

\* read_line: nothing is read while the link is not connected; a
\* SerialException clears `connected`, any other exception is only logged.
Link_ReadLine ==
    /\ lkPc = "idle"
    /\ IF ~lkConnected \/ lkSerial = 0
       THEN /\ lkLast' = "read_skipped"
            /\ UNCHANGED lkConnected
       ELSE \E o \in SerialOutcomes :
              /\ lkLast' = IF o = "ok" THEN "read" ELSE "read_" \o o
              /\ lkConnected' = (o # "serial_error")
    /\ UNCHANGED <<lkSerial, lkOpen, lkOpened, lkPc>>
    /\ UNCHANGED notLink

\* write_line: the same handlers as read_line.
Link_WriteLine ==
    /\ lkPc = "idle"
    /\ IF ~lkConnected \/ lkSerial = 0
       THEN /\ lkLast' = "write_skipped"
            /\ UNCHANGED lkConnected
       ELSE \E o \in SerialOutcomes :
              /\ lkLast' = IF o = "ok" THEN "written" ELSE "write_" \o o
              /\ lkConnected' = (o # "serial_error")
    /\ UNCHANGED <<lkSerial, lkOpen, lkOpened, lkPc>>
    /\ UNCHANGED notLink

\* close, called by cleanup once the tasks have ended: the handle bound to
\* self.serial is closed if it is open.
Link_Close ==
    /\ lkPc = "idle"
    /\ lkConnected' = FALSE
    /\ lkOpen' = IF SerialIsOpen THEN lkOpen \ {lkSerial} ELSE lkOpen
    /\ lkLast' = "closed"
    /\ lkPc' = "closed"
    /\ UNCHANGED <<lkSerial, lkOpened>>
    /\ UNCHANGED notLink

\* TFTSerial.__init__
LinkInit ==
    /\ OrchInit /\ LockIdle /\ PushIdle /\ AdmitIdle /\ LinkIdle /\ ReadIdle /\ MacroIdle /\ RateIdle /\ ReqIdle /\ BackoffIdle /\ TranslateIdle
    /\ TempIdle /\ SecIdle /\ SendIdle /\ ConnIdle

LinkNext ==
    \/ Link_Connect
    \/ Link_ConnectAssign
    \/ Link_ReadLine
    \/ Link_WriteLine
    \/ Link_Close

LinkSpec == LinkInit /\ [][LinkNext]_vars

\* ------------------------------------------------------------------ claims
InLoop == mainPc \in {"loop", "sleep", "dispatch"}

AfterLoop == mainPc \in {"gather", "cleanup", "close", "stop", "stop_wait", "done"}

TaskOver(pc) == pc \in {"none", "ended"}

\* A final reply line: it starts with "ok" or with "!!".
FinalReplies == {"ok", "ok T", "ok T0", "!!"}

FinalReplyWritten == Len(replies) > 0 /\ replies[Len(replies)] \in FinalReplies

\* C1: dispatches are sequential and in reading order.  A dispatch is in
\* progress only while the loop is suspended awaiting it, so read_line is not
\* called before process_gcode has returned for the line read before, and at
\* most one line is read and not yet returned.
C1_OneDispatchAtATime ==
    /\ dPc # "idle" => mainPc = "dispatch"
    /\ nRead - nReturned = (IF dPc = "idle" THEN 0 ELSE 1)

\* The second line is being dispatched after the first dispatch returned.
C1_Witness == nRead = 2 /\ nReturned = 1 /\ dPc = "send" /\ mainPc = "dispatch"

\* C2: when process_gcode has returned for a line and tft.connected stayed
\* True throughout the dispatch, the last line it wrote is a final reply.
C2_ReplyBeforeReturn == (lastDone /\ linkUp) => FinalReplyWritten

\* C4: the read-dispatch loop is left only because the shutdown flag or event
\* was observed, and then the signal was received, or because the task was
\* cancelled; never because an exception left process_gcode.  Inside the loop
\* self.running is False only after a signal.
C4_LoopSurvivesFailures ==
    /\ exitCause \in {"none", "flag", "event", "cancelled"}
    /\ exitCause \in {"flag", "event"} => signalled
    /\ exitCause = "cancelled" => cancelled
    /\ AfterLoop /\ running => exitCause # "none"
    /\ InLoop => exitCause = "none"
    /\ InLoop /\ ~running /\ mainPc # "loop" => signalled

\* An exception was caught by process_gcode, its acknowledgment write failed
\* too, and the loop goes on.
C4_Witness ==
    /\ lastDone /\ caught /\ replies = <<>> /\ linkUp
    /\ mainPc = "sleep" /\ running /\ exitCause = "none"

\* C5: once the loop has observed the shutdown flag it is never in the loop
\* again and no line is read or dispatched; cleanup starts only when both
\* background tasks have ended; the API client is stopped only after the
\* device link was closed.
C5_ShutdownOrder ==
    /\ [](exitCause \in {"flag", "event"} =>
            /\ AfterLoop /\ dPc = "idle"
            /\ (mainPc \in {"cleanup", "close", "stop", "stop_wait"} \/ cleanupCount > 0)
                 => (perPc = "ended" /\ monPc = "ended")
            /\ apiStopCalled => (cleanupCount = 1 /\ ~tft_connected))
    /\ [][(exitCause \in {"flag", "event"}) => (nRead' = nRead /\ dPc' = "idle")]_vars

\* Shutdown during a dispatch: the API client is being stopped after lines
\* were dispatched and the link, which was connected, was closed.
C5_Witness ==
    /\ exitCause = "flag" /\ signalAt = "dispatch" /\ nRead = 2
    /\ mainPc = "stop_wait" /\ apiStopCalled

\* Everything is released: run() is over, no background task is alive, the
\* device link is closed, the session and the websocket are closed.
Stopped ==
    /\ mainPc = "done"
    /\ TaskOver(perPc) /\ TaskOver(monPc) /\ TaskOver(supPc)
    /\ ~tft_connected
    /\ ~sessionOpen
    /\ ~ws_connected

\* C6: once the signal has been received the bridge eventually is Stopped.
C6_ShutdownCompletes == signalled ~> Stopped

\* The signal arrived in the middle of a dispatch, the dispatch returned, and
\* the bridge is stopped after one cleanup.
C6_Witness ==
    /\ signalAt = "dispatch" /\ nRead = 1 /\ lastDone
    /\ Stopped /\ cleanupCount = 1

\* C7: when run() is over, cleanup has run exactly once.
C7_CleanupExactlyOnce == mainPc = "done" => cleanupCount = 1


\* C3: once the whole stream has been read, in whatever chunks, the lines
\* read_line returned are the non-empty terminated lines of the stream, in
\* order.
C3_LinesPreserved == (pos = Len(stream)) => (returned = StreamLines(stream))


\* C8: however many tasks call check_available_macros, and however their
\* calls overlap, one query is issued to the host in total (none before the
\* first call).
C8_SingleQuery == queries = (IF callsStarted > 0 THEN 1 ELSE 0)

\* Two calls overlapped: the first has returned, the second, which waited for
\* the lock while the query was pending, now holds it.
C8_Witness ==
    /\ mcPc[1] = "idle" /\ mcPc[2] = "wait_lock" /\ macroLock = 2
    /\ callsReturned = 1 /\ queries = 1

\* C9: once a call has finished the registry is loaded and stays loaded, no
\* further query is issued and the registry no longer changes; after a query
\* that failed the registry is empty.
C9_LoadedForGood ==
    /\ [](callsReturned > 0 => macros_checked)
    /\ [](macros_checked /\ queryFailed => available_macros = {})
    /\ [][macros_checked =>
            (macros_checked' /\ queries' = queries /\ available_macros' = available_macros)]_vars

\* The query failed and a later call returned without a query.
C9_Witness == queryFailed /\ callsReturned = 3 /\ queries = 1 /\ macros_checked


\* C10: on a fresh limiter of capacity N and window W, the (N+1)th acquire to
\* complete does so no earlier than W after the first one completed.
C10_NextAfterWindow ==
    Len(completions) > max_requests =>
        completions[max_requests + 1] >= completions[1] + time_window

\* Capacity 2: the third acquire slept until the first entry left the window
\* and recorded the time it had read before the sleep.
C10_Witness ==
    /\ max_requests = 2 /\ time_window = 2 /\ Len(completions) = 3
    /\ completions[3] = completions[1] + time_window
    /\ requests[Len(requests)] < completions[3]


\* C11: after any sequence of acquire calls no interval of length W holds
\* more than N completed acquisitions: of any N+1 consecutive completions the
\* last is at least W after the first.
C11_SlidingWindow ==
    \A i \in 1..Len(completions) :
        i + max_requests <= Len(completions) =>
            completions[i + max_requests] - completions[i] >= time_window


\* C12: while every attempt of a request fails transiently, the k-th wait is
\* retry_delay * 2^(k-1) and a wait is always followed by another attempt; once
\* the request is over it has made exactly max_retries attempts, has slept
\* after each but the last, and has ended with an error (raised, or the error
\* result when there was no attempt to make), never a response.
C12_RetrySchedule ==
    /\ rqAllTransient =>
          \A k \in 1..Len(rqWaits) : rqWaits[k] = retry_delay * Pow2(k - 1)
    /\ rqPc = "backoff" => rqSent < max_retries
    /\ (rqPc = "done" /\ rqAllTransient) =>
          /\ rqSent = max_retries
          /\ Len(rqWaits) = (IF max_retries = 0 THEN 0 ELSE max_retries - 1)
          /\ rqResult = (IF max_retries = 0 THEN "error_result" ELSE "raised")

\* Three retries with delay 2: three failed attempts, waits 2 and 4, raised.
C12_Witness ==
    /\ max_retries = 3 /\ retry_delay = 2 /\ rqPc = "done" /\ rqAllTransient
    /\ rqSent = 3 /\ rqWaits = <<2, 4>> /\ rqResult = "raised"


\* C13: the retry delay stays between the base delay and the maximum delay;
\* after a failed connect it is no smaller than the delay slept before that
\* attempt, and after a successful connect it is the base delay.
C13_Backoff ==
    /\ tft_retry_delay >= base_retry_delay * DelayScale
    /\ tft_retry_delay <= max_retry_delay * DelayScale
    /\ mbLast = "failed" => tft_retry_delay >= mbSlept
    /\ mbLast = "connected" => tft_retry_delay = base_retry_delay * DelayScale

\* The attempt that first hits the maximum: it slept less than 60 s, failed,
\* and 1.5 times its delay is more than 60 s.
C13_Witness ==
    /\ mbLast = "failed" /\ mbSlept < max_retry_delay * DelayScale
    /\ tft_retry_delay = max_retry_delay * DelayScale
    /\ (mbSlept * 3) \div 2 > max_retry_delay * DelayScale


\* The command as translate_gcode looks at it, and whether it starts with p.
Stripped == Strip(trCmd)

StartsWith(t, p) == Len(t) >= Len(p) /\ SubSeq(t, 1, Len(p)) = p

IsQuery(t) == StartsWith(Upper(t), <<"M", "1", "1", "5">>) \/ StartsWith(Upper(t), <<"M", "1", "0", "5">>)

IsFilament(t) == Upper(t) = <<"M", "7", "0", "1">> \/ Upper(t) = <<"M", "7", "0", "2">>

\* C14: translate_gcode returns None for every command that starts with M115
\* or M105, whatever the registry holds.
C14_QueriesUntranslated == (trDone /\ IsQuery(Stripped)) => trOut = None

\* C15: for the command <<"M", "7", "0", "1">> translate_gcode returns LOAD_FILAMENT when that
\* macro is registered and TFT_LOAD_FILAMENT when it is not, and for <<"M", "7", "0", "2">>
\* UNLOAD_FILAMENT or TFT_UNLOAD_FILAMENT.
C15_FilamentFallback ==
    /\ (trDone /\ Upper(Stripped) = <<"M", "7", "0", "1">>) =>
          trOut = (IF "LOAD_FILAMENT" \in trMacros THEN <<"LOAD_FILAMENT">>
                   ELSE <<"TFT_LOAD_FILAMENT">>)
    /\ (trDone /\ Upper(Stripped) = <<"M", "7", "0", "2">>) =>
          trOut = (IF "UNLOAD_FILAMENT" \in trMacros THEN <<"UNLOAD_FILAMENT">>
                   ELSE <<"TFT_UNLOAD_FILAMENT">>)

\* <<"M", "7", "0", "1">> with a registry that lacks LOAD_FILAMENT but holds the other macro.
C15_Witness ==
    /\ trDone /\ trCmd = <<"M", "7", "0", "1">> /\ trMacros = {"UNLOAD_FILAMENT"}
    /\ trOut = <<"TFT_LOAD_FILAMENT">>

\* C16: the filament commands are decided by the registry, before any rule;
\* any other command that matches a rule gets the replacement of the first
\* rule that matches and is never returned unchanged; a command is passed
\* through only when no rule matches; and the two mesh commands give the two
\* texts of the rule table.
C16_RulePriority ==
    trDone =>
        /\ IsFilament(Stripped) =>
              trOut \in {<<"LOAD_FILAMENT">>, <<"TFT_LOAD_FILAMENT">>,
                         <<"UNLOAD_FILAMENT">>, <<"TFT_UNLOAD_FILAMENT">>}
        /\ (~IsFilament(Stripped) /\ MatchingRules(Stripped) # {}) =>
              /\ trOut # <<Join(Stripped)>>
              /\ \E i \in MatchingRules(Stripped) :
                    /\ \A j \in MatchingRules(Stripped) : i <= j
                    /\ trOut = <<Replacement(translations[i],
                                             Match(translations[i].pat, Stripped, <<>>).groups)>>
        /\ (trOut = <<Join(Stripped)>> /\ Stripped # <<>>) => MatchingRules(Stripped) = {}
        /\ trCmd = <<"M", "4", "2", "0", " ", "S", "1">> =>
              trOut = <<"BED_MESH_PROFILE LOAD=default">>
        /\ trCmd = <<"M", "4", "2", "1", " ", "I", "1", "0", " ", "J", "5", " ", "Z", "0", ".", "1">> =>
              trOut = <<"BED_MESH_CALIBRATE MESH_MIN=10,5 MESH_MAX=10,5">>

\* A command that matches a rule and a passthrough pattern (M[23][0-9].*)
\* got the text of the rule.
C16_Witness ==
    /\ trDone /\ trCmd = <<"M", "3", "0", "3", " ", "E", "0", " ", "C", "8", " ", "U", "1">>
    /\ MatchesPassthrough(trCmd)
    /\ trOut = <<"PID_CALIBRATE HEATER=extruder">>


\* C17: a firmware-info query is answered inside one run of the task: the
\* identification line and then "ok" are passed to write_line, in that order
\* and nothing else, and process_gcode returns without suspending on the
\* macro query, on a send or on a status request.  The device receives these
\* lines except those whose write failed.
C17_FirmwareInfoLocal ==
    curLine = "M115" =>
        /\ dPc = "idle"
        /\ lastDone /\ ~caught
        /\ passed = <<"id", "ok">>
        /\ replies \in {<<"id", "ok">>, <<"id">>, <<"ok">>, <<>>}

\* A firmware-info query answered before the macros were ever queried.
C17_Witness ==
    /\ curLine = "M115" /\ lastDone /\ ~macros_checked
    /\ replies = <<"id", "ok">> /\ nReturned = nRead

\* The status could not be obtained: an error result, a result that is no
\* dict or has no status section, or a status section without both heaters.
NoStatus ==
    \/ status.kind # "status"
    \/ ~status.extruder.present /\ ~status.heater_bed.present

\* C18: handle_m105 writes exactly one line for a query, and whenever the
\* status could not be obtained that line is 'ok T:0.0 /0.0 B:0.0 /0.0'.
C18_TemperatureFallback ==
    m105Done =>
        /\ Len(m105Writes) = 1
        /\ NoStatus => m105Writes = <<"ok T:0.0 /0.0 B:0.0 /0.0">>

\* A status section that holds neither heater.
C18_Witness ==
    /\ m105Done /\ status.kind = "status"
    /\ ~status.extruder.present /\ ~status.heater_bed.present
    /\ m105Writes = <<"ok T:0.0 /0.0 B:0.0 /0.0">>

\* The status response with extruder 205.3 / 210.0 and bed 60.1 / 60.0.
EndToEndStatus ==
    /\ status.kind = "status"
    /\ status.extruder = [present |-> TRUE, temperature |-> [k |-> "num", v |-> 20530],
                          target |-> [k |-> "num", v |-> 21000]]
    /\ status.heater_bed = [present |-> TRUE, temperature |-> [k |-> "num", v |-> 6010],
                            target |-> [k |-> "num", v |-> 6000]]

\* C19: with extruder 205.3 / 210.0 and bed 60.1 / 60.0 the reply is
\* 'ok T:205.3 /210.0 B:60.1 /60.0'.
C19_TemperatureLine ==
    (m105Done /\ EndToEndStatus) => m105Writes = <<"ok T:205.3 /210.0 B:60.1 /60.0">>

C19_Witness == m105Done /\ EndToEndStatus /\ Len(m105Writes) = 1


\* C20: a command without translation is never sent to the host, and when
\* process_gcode has returned exactly one line, "ok", was passed to
\* write_line for it.
C20_UnknownAcknowledged ==
    curLine = "unknown" =>
        /\ dPc # "send"
        /\ passed = (IF lastDone THEN <<"ok">> ELSE <<>>)
        /\ Len(replies) <= 1

\* An unknown command acknowledged after the translator had run normally.
C20_Witness ==
    /\ curLine = "unknown" /\ lastDone /\ ~caught /\ macros_checked
    /\ replies = <<"ok">>


\* C21: sanitize_gcode applied to its own result gives that result again,
\* and its result is never longer than 1000 characters.
C21_SanitizeIdempotent ==
    "sanitize" \in secDone => (secOut2 = secOut /\ Len(secOut) <= 1000)

\* The path separators.
Separators == {"/", "\\"}

\* What a file name must not be: empty, the parent directory, absolute, with
\* a path separator in it, or longer than 255 characters.
BadFilename(f) ==
    \/ f = <<>>
    \/ f = <<".", ".">>
    \/ \E i \in 1..Len(f) : f[i] \in Separators
    \/ Len(f) > 255

\* C22: validate_filename is false exactly for the empty name, a name with a
\* parent-directory segment, an absolute path, a name with a path separator
\* and a name longer than 255 characters.
C22_FilenameValidation ==
    "validate" \in secDone => (secValid <=> ~BadFilename(secIn))


\* C23: in test mode send_gcode never hands a script to _make_request, and a
\* call whose sanitized command is not empty logs the command and returns the
\* synthetic success.
C23_TestModeSendsNothing ==
    test_mode =>
        /\ sgPosted = <<>>
        /\ sgPc # "request"
        /\ (sgPc = "done" /\ sanitize_gcode(sgCmd) # <<>>) =>
              /\ sgResult = "test_ok"
              /\ sgLogged # <<>>
              /\ sgLogged[Len(sgLogged)] = [gcode |-> sgCmd, translated |-> sanitize_gcode(sgCmd)]
        /\ Len(sgLogged) <= sgCalls

\* In test mode a command the sanitizer changed was logged and acknowledged.
C23_Witness ==
    /\ test_mode /\ sgPc = "done" /\ sgResult = "test_ok"
    /\ sgCmd = <<"M", "1", "1", "7", " ", "H", "i", "!">>
    /\ sgLogged[Len(sgLogged)].translated = <<"M", "1", "1", "7", " ", "H", "i">>


\* C25: once the probe of MoonrakerClient.start has returned, failed or not,
\* the supervisor and both background tasks have been created and run() has
\* entered its loop (it leaves it only through the finally that cleans up),
\* whether or not the device link is connected.
C25_StartSurvivesProbe ==
    probe # "pending" =>
        /\ supPc # "none" /\ perPc # "none" /\ monPc # "none"
        /\ mainPc # "probe"
        /\ mainPc = "done" => cleanupCount = 1 \/ cancelled

\* The loop runs after a failed probe, the device link not connected.
C25_Witness ==
    /\ probe = "failed" /\ running /\ mainPc = "sleep"
    /\ ~tft_connected /\ ~ws_connected

\* C24: once ConnectionManager.stop has returned, the supervisor task has
\* ended, the websocket and the session are closed and connected is False,
\* wherever the task was when it was cancelled.
C24_StopReleases ==
    cmStopPc = "returned" =>
        /\ cmPc = "ended"
        /\ cmWs # "open"
        /\ ~cmSession
        /\ ~cmConnected

\* stop() returned after cancelling a task that was in its second attempt or
\* in the delay before it, no connect ever completed.
C24_Witness ==
    /\ cmStopPc = "returned" /\ cmPc = "ended"
    /\ cmAttempt = 1 /\ cmLast = "none"

\* C30: with at least one attempt per connect, if the host stays up and stop
\* is not called, the supervisor ends up connected for good; and a
\* connect_websocket whose attempts all failed leaves connected False.
C30_EventuallyConnected ==
    /\ [](cmLast = "failed" => ~cmConnected)
    /\ (cmRetries >= 1) =>
          (<>[](hostUp /\ cmStopPc = "idle") => <>[](cmConnected /\ cmWs = "open"))

\* Connected in a later attempt, after the host came up.
C30_Witness ==
    /\ cmConnected /\ cmWs = "open" /\ hostUp /\ cmStopPc = "idle"
    /\ cmAttempt >= 1 /\ cmLast = "connected"


\* C26: when process_gcode has returned for a command that had a translation,
\* it has passed exactly one line to write_line: "!! <error>" if send_gcode
\* gave an error result, "ok" if it gave a result or raised.
C26_OneReplyPerTranslation ==
    (curLine = "rule" /\ lastDone /\ ~caught) =>
        /\ sendResult \in SendOutcomes
        /\ passed = (IF sendResult = "error" THEN <<"!!">> ELSE <<"ok">>)
        /\ Len(replies) <= 1

\* The error line alone answered a command whose send failed.
C26_Witness ==
    /\ curLine = "rule" /\ lastDone /\ sendResult = "error"
    /\ replies = <<"!!">>


\* The part of the stream read_line has consumed, and what follows its last
\* terminator.
Consumed == SubSeq(stream, 1, pos)

TrailingFragment == Split(Consumed)[Len(Split(Consumed))]

\* C27: after every call of read_line the buffer holds no terminator, it is
\* the fragment that follows the last terminator consumed, and every line
\* returned is a whole terminated line of the stream, stripped.
C27_CompleteLinesOnly ==
    /\ ~HasNL(read_buffer)
    /\ read_buffer = TrailingFragment
    /\ \A i \in 1..Len(returned) :
         \E j \in 1..Len(StreamLines(stream)) : returned[i] = StreamLines(stream)[j]

\* A line was returned that arrived in two reads, and a fragment is waiting.
C27_Witness ==
    /\ stream = <<"a", "b", NL, "a">>
    /\ returned = <<<<"a", "b">>>>
    /\ read_buffer = <<"a">>


\* C28: an acquire that had to sleep records, when it wakes, the time of its
\* admission: the entry it appends is the time at which it appends it.
C28_AdmissionTimeRecorded ==
    [][\A c \in Acquirers :
          (rlPc[c] = "sleeping" /\ rlPc'[c] = "idle") => requests'[Len(requests')] = clock']_vars

\* The callers whose acquire is suspended in its sleep.
Sleeping == {c \in Acquirers : rlPc[c] = "sleeping"}

\* C29: a sleeping acquire holds the lock, at most one acquire is past the
\* lock, and while it sleeps no other call evicts, records or returns.
C29_AcquireSerialized ==
    /\ [](Cardinality(Sleeping) <= 1 /\ \A c \in Sleeping : rlLock = c)
    /\ [][(Sleeping # {} /\ Sleeping' = Sleeping) =>
              (requests' = requests /\ completions' = completions)]_vars

\* A second caller is waiting for the lock while the first one sleeps.
C29_Witness ==
    \E c \in Acquirers, e \in Acquirers :
        c # e /\ rlPc[c] = "sleeping" /\ rlLock = c /\ rlPc[e] = "wait_lock"


\* The characters of a text, one by one.
TextChars(s) == [i \in 1..Len(s) |-> SubSeq(s, i, i)]

\* C33: sanitize_gcode leaves every text unchanged that translate_gcode
\* returns from a translation rule (the text of the rule or the result of
\* its lambda), so the script send_gcode posts is the translation.
C33_RuleTextsSurviveSanitize ==
    (trDone /\ RuleDecides(Stripped)) =>
        sanitize_gcode(TextChars(trOut[1])) = TextChars(trOut[1])

\* C36: for every command that begins with M701 (M702), with parameters or
\* without, translate_gcode returns LOAD_FILAMENT (UNLOAD_FILAMENT) only
\* when that macro is in the registry, and the TFT_ name when it is not.
C36_FilamentNeedsMacro ==
    /\ (trDone /\ StartsWith(Upper(Stripped), <<"M", "7", "0", "1">>)
            /\ "LOAD_FILAMENT" \notin trMacros) =>
          trOut = <<"TFT_LOAD_FILAMENT">>
    /\ (trDone /\ StartsWith(Upper(Stripped), <<"M", "7", "0", "2">>)
            /\ "UNLOAD_FILAMENT" \notin trMacros) =>
          trOut = <<"TFT_UNLOAD_FILAMENT">>

\* C40: with every configuration validate accepts (max_retries 0 included),
\* a call of _make_request that is over with a failure (an exception or an
\* error result) has sent at least one attempt to the host.
C40_FailsOnlyAfterAnAttempt ==
    (rqPc = "done" /\ rqResult \in {"raised", "error_result"}) => rqSent >= 1

\* C32: every failure of a read from the device (a SerialException or any
\* other exception) is kept inside read_line and leaves the link not
\* connected, so that tft_connection_monitor calls connect again.
C32_ReadFailureDisconnects ==
    lkLast \in {"read_serial_error", "read_other_error"} => ~lkConnected

\* C37: at most one serial handle is open at any time: when connect opens a
\* handle after a failed read or write, the handle opened before is closed.
C37_OneOpenHandle == Cardinality(lkOpen) <= 1

\* C35: every attempt _make_request sends to the host has been admitted by
\* the rate limiter, retries included: no more attempts are sent than
\* acquire calls have returned, and of any N+1 consecutive attempts the last
\* is at least W after the first.
C35_AttemptsAdmitted ==
    /\ Len(adTimes) <= Len(completions)
    /\ \A i \in 1..Len(adTimes) :
          i + max_requests <= Len(adTimes) =>
              adTimes[i + max_requests] - adTimes[i] >= time_window

\* C39: once cleanup() has begun, tft_connection_monitor and
\* send_periodic_updates have ended and no dispatch is in progress, so no
\* bridge loop reconnects the link or asks the host; from the tft.close()
\* of cleanup on, the link stays not connected.
C39_QuietAfterCleanup ==
    cleanupCount > 0 =>
        /\ perPc = "ended" /\ monPc = "ended"
        /\ dPc = "idle"
        /\ mainPc \in {"stop", "stop_wait", "done"} => ~tft_connected

\* The loop was cancelled after a line had been read from the connected link;
\* cleanup has closed the link and waits for the API client to stop.
C39_Witness ==
    /\ cleanupCount = 1 /\ mainPc = "stop_wait" /\ exitCause = "cancelled"
    /\ nRead >= 1 /\ ~tft_connected

\* C31: send_periodic_updates starts a temperature report, with its status
\* query, only while the link is connected, and any two reports it starts
\* are at least temp_report_interval (2 s) apart.
C31_ReportsSpaced ==
    \A i \in 1..Len(psStarts) :
        /\ psStarts[i].conn
        /\ i > 1 => psStarts[i].at - psStarts[i - 1].at >= temp_report_interval

\* Three reports: the second exactly one interval after the first, the third
\* later than that because the link was down when it fell due.
C31_Witness ==
    /\ Len(psStarts) = 3
    /\ psStarts[2].at - psStarts[1].at = temp_report_interval
    /\ psStarts[3].at - psStarts[2].at > temp_report_interval

\* C34: while process_gcode waits for the host's answer to a forwarded
\* command, send_periodic_updates writes no temperature report ("ok T:...")
\* to the device: no report of the status-push loop is completed on a
\* connected link while the dispatch is suspended in send_gcode.
C34_NoReportWhileForwarding ==
    [][~(/\ dPc = "send" /\ dPc' = "send"
         /\ perPc = "status" /\ perPc' = "sleep"
         /\ tft_connected /\ tft_connected')]_vars

\* C38: the lock of the rate limiter and the lock of the macro registry do
\* not deadlock: with process_gcode, send_periodic_updates and the start-up
\* probe requesting concurrently, every call that is under way (in acquire,
\* in check_available_macros or at the host) eventually returns.
C38_LocksNeverDeadlock ==
    \A t \in Tasks : (lsPc[t] # "idle") ~> (lsPc[t] = "idle")

\* The dispatch holds the macro lock and queues for the limiter's lock behind
\* the probe, while the status-push loop sleeps with that lock held.
C38_Witness ==
    /\ lsMacroLock = "dispatch" /\ lsPc["dispatch"] = "rate_wait"
    /\ lsRateLock = "push" /\ lsPc["push"] = "rate_sleep"
    /\ lsRateWaiters = <<"probe", "dispatch">>
=============================================================================
